---- MODULE Spec2Model ----
(***************************************************************************)
(* Model of the OCR job orchestrator of DeepReadAPI (src/backend/api.py).  *)
(*                                                                         *)
(* Threads: one front-end thread issues the API calls one after another    *)
(* (open_pdf, ocr_page, start_ocr_document, get_ocr_progress), and every   *)
(* started job runs _run_ocr_document_job on a daemon thread of its own.   *)
(* A thread may be pre-empted wherever it calls a function (lock           *)
(* acquisition, pipeline run, pipeline construction, file I/O, thread      *)
(* start) and at loop back-edges; the straight-line attribute reads and    *)
(* writes between two such points form one step.                           *)
(***************************************************************************)
EXTENDS Integers, Sequences, FiniteSets, TLC

\* ---------------------------------------------------------------- bounds
MaxPages == 2
MaxGen == 1
MaxWorkers == 2

Docs == {"A", "B"}
Workers == 1..MaxWorkers
PageArgs == 1..MaxPages

NoDoc == "none"

\* thread identities: the front-end thread, and no thread (the lock is free);
\* the worker threads are identified by their slot in Workers
FrontEnd == 0
Unlocked == -1

\* len(fitz.open(path)) of the documents the model opens
PageCount(d) == IF d = "A" THEN MaxPages ELSE 1

\* number of OCR lines recognised on page p of document d
NumLines(d, p) == IF d = "A" THEN 1 ELSE 2

\* OCRPipeline.run(first_page=p, last_page=p) followed by results[0] if
\* results else [] and _simplify_ocr_lines: the renderer clamps the range
\* to the real page count, so a page outside it gives no result at all.
PipelineLines(d, p) ==
    IF p >= 1 /\ p <= PageCount(d)
    THEN [i \in 1..NumLines(d, p) |-> <<d, p, i>>]
    ELSE <<>>

\* ------------------------------------------------------------------ state
VARIABLES
    pdf_engine,        \* document of self.pdf_engine, NoDoc when None
    current_pdf_path,  \* self.current_pdf_path
    ocr_pipeline,      \* pdf_path of self._ocr_pipeline, NoDoc when None
    ocr_cache,         \* self._ocr_cache: page_num -> simplified lines
    ocr_job_id,        \* self._ocr_job_id (the generation id)
    ocr_progress,      \* self._ocr_progress
    ocr_progress_lock, \* thread holding self._ocr_progress_lock, or Unlocked
    worker,            \* threads running _run_ocr_document_job
    caller,            \* the API call in progress on the front-end thread
    ret,               \* value returned by the API call that finished in the last step
    prev,              \* the preceding API call, when it was a successful ocr_page
    engine,            \* a document engine object (PDFEngine, DocxEngine or TextEngine)
    eres,              \* outcome of the last operation on that engine
    store,             \* the database of self._persistence: documents, app_settings
    ai_service,        \* configuration of self.ai_service
    files,             \* paths of the files that exist
    clock,             \* the time, in writes to the database
    saved,             \* history: the arguments of the last save of each kind
    sync,              \* the ocr_document call in progress on its own front-end thread
    heal               \* the OCR engine's model cache and its _create_ocr_model_with_recovery call

vars == <<pdf_engine, current_pdf_path, ocr_pipeline, ocr_cache, ocr_job_id,
          ocr_progress, ocr_progress_lock, worker, caller, ret, prev, engine, eres,
          store, ai_service, files, clock, saved, sync, heal>>

\* the state of the OCR orchestrator, and the state of the engine object
\* whose operations are studied on their own
ovars == <<pdf_engine, current_pdf_path, ocr_pipeline, ocr_cache, ocr_job_id,
           ocr_progress, ocr_progress_lock, worker, caller, ret, prev, sync, heal>>

\* the persistent state, studied on its own as well
svars == <<store, ai_service, files, clock, saved>>

evars == <<engine, eres, svars, sync, heal>>

orch == <<pdf_engine, current_pdf_path, ocr_pipeline, ocr_cache, ocr_job_id,
          ocr_progress>>

IdleProgress(job) ==
    [status |-> "idle", stage |-> "idle", job_id |-> job,
     processed_pages |-> 0, total_pages |-> 0, total_lines |-> 0,
     error |-> ""]

NoWorker ==
    [pc |-> "none", job_id |-> 0, total_pages |-> 0, page_num |-> 0,
     processed_pages |-> 0, total_lines |-> 0, pipe |-> NoDoc, error |-> ""]

\* locals of the API call in progress; gen0, reopen and all_cached only
\* record what the call saw (the generation id at its start, whether a
\* document was open, whether pages 1..page_count were all cached)
IdleCaller ==
    [pc |-> "idle", doc |-> NoDoc, page |-> 0, page_count |-> 0,
     job_id |-> 0, total_lines |-> 0, pipe |-> NoDoc,
     gen0 |-> 0, reopen |-> FALSE, all_cached |-> FALSE]

NoResult == [op |-> "none"]

\* the OCR engine before its environment is known
NoHeal ==
    [pc |-> "unset", explicit |-> FALSE, dirs |-> {}, complete |-> {}, builds |-> 0,
     retried |-> <<>>, result |-> [op |-> "none", ok |-> TRUE, builds |-> 0]]

\* no ocr_document call is in progress
NoSync == [pc |-> "none", page_count |-> 0, result |-> NoResult]

\* no engine object has been constructed
NoEngine == [kind |-> "none"]

\* no engine operation has been called yet
NoOutcome ==
    [op |-> "none", ok |-> TRUE, page |-> 0, zoom |-> 0, value |-> <<>>,
     rendered |-> FALSE]

Init ==
    /\ pdf_engine = NoDoc
    /\ current_pdf_path = NoDoc
    /\ ocr_pipeline = NoDoc
    /\ ocr_cache = <<>>
    /\ ocr_job_id = 0
    /\ ocr_progress = IdleProgress(0)
    /\ ocr_progress_lock = Unlocked
    /\ worker = [w \in Workers |-> NoWorker]
    /\ caller = IdleCaller
    /\ ret = NoResult
    /\ prev = NoResult
    /\ sync = NoSync
    /\ heal = NoHeal
    /\ engine = NoEngine
    /\ eres = NoOutcome
    /\ store = [documents |-> <<>>, app_settings |-> <<>>, page_notes |-> <<>>]
    /\ ai_service = [provider |-> "openai", model |-> <<"gpt-4o-mini">>,
                     base_url |-> <<>>, api_key |-> <<>>]
    /\ files = {"/cwd/A", "/cwd/B"}
    /\ clock = 0
    /\ saved = [session |-> [p \in {"/cwd/A", "/cwd/B"} |-> <<>>], ai |-> <<>>]

\* ---------------------------------------------------------------- helpers
CacheHas(p) == p \in DOMAIN ocr_cache

AllCached(n) == \A p \in 1..n : CacheHas(p)

CachePut(p, lines) ==
    [q \in (DOMAIN ocr_cache) \cup {p} |-> IF q = p THEN lines ELSE ocr_cache[q]]

RECURSIVE SumLines(_, _)
SumLines(cache, keys) ==
    IF keys = {} THEN 0
    ELSE LET k == CHOOSE x \in keys : TRUE
         IN Len(cache[k]) + SumLines(cache, keys \ {k})

\* 100.0 * processed_pages / total_pages, kept exact as <<numerator, denominator>>
Percent(processed, total) ==
    IF total > 0 THEN <<100 * processed, total>> ELSE <<0, 1>>

GetOcrProgressSnapshot ==
    [status |-> ocr_progress.status, stage |-> ocr_progress.stage,
     job_id |-> ocr_progress.job_id,
     processed_pages |-> ocr_progress.processed_pages,
     total_pages |-> ocr_progress.total_pages,
     total_lines |-> ocr_progress.total_lines,
     error |-> ocr_progress.error,
     percent |-> Percent(ocr_progress.processed_pages, ocr_progress.total_pages)]

Alive(w) == worker[w].pc # "none"

FreeSlot == CHOOSE w \in Workers : ~Alive(w) /\ \A v \in Workers : v < w => Alive(v)

\* self._ocr_progress.update(kwargs) under the progress lock
UpdateOcrProgress(kw) ==
    [f \in DOMAIN ocr_progress |-> IF f \in DOMAIN kw THEN kw[f] ELSE ocr_progress[f]]

\* the front-end thread returns r from the current call
Return(r) ==
    /\ caller' = IdleCaller
    /\ ret' = r

\* the front-end thread moves on inside the current call
Goto(rec) ==
    /\ caller' = rec
    /\ ret' = NoResult

\* ------------------------------------------------- _ocr_progress_lock
\* positions at which the front-end thread is about to enter
\* `with self._ocr_progress_lock:` (lines 302, 344, 348)
CallerLockPcs ==
    {"open_reset", "start_snapshot", "start_cached_update", "start_running_update",
     "get_progress"}

\* positions at which a worker is about to call _update_ocr_progress
WorkerLockPcs ==
    {"start_update", "stage", "page_update", "done_update", "error_update"}

\* the front-end thread acquires the lock; it blocks while another holds it
CallerAcquire ==
    /\ caller.pc \in CallerLockPcs
    /\ ocr_progress_lock = Unlocked
    /\ ocr_progress_lock' = FrontEnd
    /\ ret' = NoResult
    /\ UNCHANGED evars
    /\ UNCHANGED <<orch, worker, caller, prev>>

\* worker w acquires the lock; it blocks while another holds it
WorkerAcquire(w) ==
    /\ worker[w].pc \in WorkerLockPcs
    /\ ocr_progress_lock = Unlocked
    /\ ocr_progress_lock' = w
    /\ ret' = NoResult
    /\ UNCHANGED evars
    /\ UNCHANGED <<orch, worker, caller, prev>>

\* ------------------------------------------------------------- open_pdf
\* mutant of NextJobId: the cleanup forgets to advance the generation id
NextJobIdStuck(j) == j

\* line 296: self._ocr_job_id += 1
NextJobId(j) == j + 1

\* lines 81-87: the call reads self.pdf_engine and closes the old engine
OpenPdfCall(d) ==
    /\ caller.pc = "idle"
    /\ pdf_engine # NoDoc => ocr_job_id < MaxGen
    /\ Goto([IdleCaller EXCEPT !.doc = d, !.gen0 = ocr_job_id,
                !.reopen = (pdf_engine # NoDoc),
                !.pc = IF pdf_engine # NoDoc THEN "open_cleanup" ELSE "open_construct"])
    /\ prev' = NoResult
    /\ UNCHANGED ocr_progress_lock
    /\ UNCHANGED evars
    /\ UNCHANGED <<orch, worker>>

\* mutant of OpenPdfCleanup: the cleanup keeps the old document's cache
OpenPdfCleanupKeepsCache ==
    /\ caller.pc = "open_cleanup"
    /\ ocr_job_id' = NextJobId(ocr_job_id)
    /\ ocr_pipeline' = NoDoc
    /\ Goto([caller EXCEPT !.pc = "open_reset"])
    /\ UNCHANGED ocr_progress_lock
    /\ UNCHANGED evars
    /\ UNCHANGED <<pdf_engine, current_pdf_path, ocr_cache, ocr_progress, worker, prev>>

\* _cleanup_ocr lines 296-298
OpenPdfCleanup ==
    /\ caller.pc = "open_cleanup"
    /\ ocr_job_id' = NextJobId(ocr_job_id)
    /\ ocr_pipeline' = NoDoc
    /\ ocr_cache' = <<>>
    /\ Goto([caller EXCEPT !.pc = "open_reset"])
    /\ UNCHANGED ocr_progress_lock
    /\ UNCHANGED evars
    /\ UNCHANGED <<pdf_engine, current_pdf_path, ocr_progress, worker, prev>>

\* _cleanup_ocr lines 302-311
OpenPdfReset ==
    /\ caller.pc = "open_reset"
    /\ ocr_progress' = IdleProgress(ocr_job_id)
    /\ Goto([caller EXCEPT !.pc = "open_construct"])
    /\ ocr_progress_lock = FrontEnd
    /\ ocr_progress_lock' = Unlocked
    /\ UNCHANGED evars
    /\ UNCHANGED <<pdf_engine, current_pdf_path, ocr_pipeline, ocr_cache,
                   ocr_job_id, worker, prev>>

\* lines 89-118
OpenPdfConstruct ==
    /\ caller.pc = "open_construct"
    /\ pdf_engine' = caller.doc
    /\ current_pdf_path' = caller.doc
    /\ Return([op |-> "open_pdf", success |-> TRUE, file_path |-> caller.doc,
               page_count |-> PageCount(caller.doc),
               gen0 |-> caller.gen0, reopen |-> caller.reopen])
    /\ UNCHANGED ocr_progress_lock
    /\ UNCHANGED evars
    /\ UNCHANGED <<ocr_pipeline, ocr_cache, ocr_job_id, ocr_progress, worker, prev>>

\* ------------------------------------------------------------- ocr_page
PageFailure(p, msg) ==
    [op |-> "ocr_page", page |-> p, success |-> FALSE, error |-> msg]

PageSuccess(p, lines, ran) ==
    [op |-> "ocr_page", page |-> p, success |-> TRUE, lines |-> lines, ran |-> ran]

\* lines 440-446
OcrPageCall(p) ==
    /\ caller.pc = "idle"
    /\ IF pdf_engine = NoDoc
       THEN /\ Return(PageFailure(p, "No PDF open"))
            /\ prev' = NoResult
       ELSE IF CacheHas(p)
       THEN /\ Return(PageSuccess(p, ocr_cache[p], FALSE))
            /\ prev' = PageSuccess(p, ocr_cache[p], FALSE)
       ELSE /\ Goto([IdleCaller EXCEPT !.page = p, !.pc = "page_ensure"])
            /\ prev' = IF prev.op = "ocr_page" /\ prev.page = p THEN prev ELSE NoResult
    /\ UNCHANGED ocr_progress_lock
    /\ UNCHANGED evars
    /\ UNCHANGED <<orch, worker>>

\* _ensure_ocr_pipeline lines 315-316
OcrPageEnsure ==
    /\ caller.pc = "page_ensure"
    /\ Goto([caller EXCEPT !.pc = IF ocr_pipeline # NoDoc THEN "page_run" ELSE "page_make"])
    /\ UNCHANGED ocr_progress_lock
    /\ UNCHANGED evars
    /\ UNCHANGED <<orch, worker, prev>>

\* _ensure_ocr_pipeline lines 318-320: OCRPipeline(self.current_pdf_path, ...)
OcrPageMake ==
    /\ caller.pc = "page_make"
    /\ Goto([caller EXCEPT !.pc = "page_assign", !.pipe = current_pdf_path])
    /\ UNCHANGED ocr_progress_lock
    /\ UNCHANGED evars
    /\ UNCHANGED <<orch, worker, prev>>

\* line 320: the constructed pipeline is stored
OcrPageAssign ==
    /\ caller.pc = "page_assign"
    /\ ocr_pipeline' = caller.pipe
    /\ Goto([caller EXCEPT !.pc = "page_run", !.pipe = NoDoc])
    /\ UNCHANGED ocr_progress_lock
    /\ UNCHANGED evars
    /\ UNCHANGED <<pdf_engine, current_pdf_path, ocr_cache, ocr_job_id, ocr_progress,
                   worker, prev>>

\* lines 451-453: self._ocr_pipeline.run(...) is entered
OcrPageRun ==
    /\ caller.pc = "page_run"
    /\ IF ocr_pipeline = NoDoc
       THEN /\ Return(PageFailure(caller.page, "NoneType has no attribute run"))
            /\ prev' = NoResult
       ELSE /\ Goto([caller EXCEPT !.pc = "page_store", !.pipe = ocr_pipeline])
            /\ UNCHANGED prev
    /\ UNCHANGED ocr_progress_lock
    /\ UNCHANGED evars
    /\ UNCHANGED <<orch, worker>>

\* mutant of OcrPageStore: a failed run is cached as a page without lines
OcrPageStoreCachesFailure ==
    LET simplified == PipelineLines(caller.pipe, caller.page) IN
    /\ caller.pc = "page_store"
    /\ \/ /\ ocr_cache' = CachePut(caller.page, simplified)
          /\ Return(PageSuccess(caller.page, simplified, TRUE))
          /\ prev' = PageSuccess(caller.page, simplified, TRUE)
       \/ /\ Return(PageFailure(caller.page, "pipeline failed"))
          /\ prev' = NoResult
          /\ ocr_cache' = CachePut(caller.page, <<>>)
    /\ UNCHANGED ocr_progress_lock
    /\ UNCHANGED evars
    /\ UNCHANGED <<pdf_engine, current_pdf_path, ocr_pipeline, ocr_job_id, ocr_progress,
                   worker>>

\* lines 456-465: the run returns and is cached, or it raises
OcrPageStore ==
    LET simplified == PipelineLines(caller.pipe, caller.page) IN
    /\ caller.pc = "page_store"
    /\ \/ /\ ocr_cache' = CachePut(caller.page, simplified)
          /\ Return(PageSuccess(caller.page, simplified, TRUE))
          /\ prev' = PageSuccess(caller.page, simplified, TRUE)
       \/ /\ Return(PageFailure(caller.page, "pipeline failed"))
          /\ prev' = NoResult
          /\ UNCHANGED ocr_cache
    /\ UNCHANGED ocr_progress_lock
    /\ UNCHANGED evars
    /\ UNCHANGED <<pdf_engine, current_pdf_path, ocr_pipeline, ocr_job_id, ocr_progress,
                   worker>>

\* --------------------------------------------------- start_ocr_document
StartResult(started, running, cached, total) ==
    [op |-> "start", success |-> TRUE, started |-> started,
     already_running |-> running, cached |-> cached, total_pages |-> total,
     all_cached |-> caller.all_cached]

\* lines 505-518
StartCall ==
    /\ caller.pc = "idle"
    /\ IF pdf_engine = NoDoc
       THEN /\ Return([op |-> "start", success |-> FALSE, error |-> "No PDF open"])
            /\ UNCHANGED ocr_progress
       ELSE IF PageCount(pdf_engine) <= 0
       THEN \* lines 510-518: the same update and result as lines 533-547
            \* with page_count = 0 and total_lines = 0
            /\ Goto([IdleCaller EXCEPT !.pc = "start_cached_update",
                                        !.page_count = 0, !.all_cached = TRUE])
            /\ UNCHANGED ocr_progress
       ELSE /\ Goto([IdleCaller EXCEPT !.pc = "start_snapshot",
                                        !.page_count = PageCount(pdf_engine)])
            /\ UNCHANGED ocr_progress
    /\ prev' = NoResult
    /\ UNCHANGED ocr_progress_lock
    /\ UNCHANGED evars
    /\ UNCHANGED <<pdf_engine, current_pdf_path, ocr_pipeline, ocr_cache, ocr_job_id, worker>>

\* lines 521-528
StartSnapshot ==
    /\ caller.pc = "start_snapshot"
    /\ IF GetOcrProgressSnapshot.status = "running"
       THEN Return(StartResult(FALSE, TRUE, FALSE, GetOcrProgressSnapshot.total_pages))
       ELSE Goto([caller EXCEPT !.pc = "start_cached"])
    /\ ocr_progress_lock = FrontEnd
    /\ ocr_progress_lock' = Unlocked
    /\ UNCHANGED evars
    /\ UNCHANGED <<orch, worker, prev>>

\* lines 531-532 and 549
StartCached ==
    /\ caller.pc = "start_cached"
    /\ IF Cardinality(DOMAIN ocr_cache) >= caller.page_count
       THEN Goto([caller EXCEPT !.pc = "start_cached_update",
                     !.all_cached = AllCached(caller.page_count),
                     !.total_lines = SumLines(ocr_cache, DOMAIN ocr_cache)])
       ELSE Goto([caller EXCEPT !.pc = "start_running_update",
                     !.all_cached = AllCached(caller.page_count),
                     !.job_id = ocr_job_id])
    /\ UNCHANGED ocr_progress_lock
    /\ UNCHANGED evars
    /\ UNCHANGED <<orch, worker, prev>>

\* lines 533-547
StartCachedUpdate ==
    /\ caller.pc = "start_cached_update"
    /\ ocr_progress' = UpdateOcrProgress(
           [status |-> "completed", stage |-> "completed",
            processed_pages |-> caller.page_count, total_pages |-> caller.page_count,
            total_lines |-> caller.total_lines, error |-> ""])
    /\ Return(StartResult(FALSE, FALSE, TRUE, caller.page_count))
    /\ ocr_progress_lock = FrontEnd
    /\ ocr_progress_lock' = Unlocked
    /\ UNCHANGED evars
    /\ UNCHANGED <<pdf_engine, current_pdf_path, ocr_pipeline, ocr_cache, ocr_job_id,
                   worker, prev>>

\* lines 550-558
StartRunningUpdate ==
    /\ caller.pc = "start_running_update"
    /\ ocr_progress' = UpdateOcrProgress(
           [status |-> "running", stage |-> "loading_model", job_id |-> caller.job_id,
            processed_pages |-> 0, total_pages |-> caller.page_count,
            total_lines |-> 0, error |-> ""])
    /\ Goto([caller EXCEPT !.pc = "start_spawn"])
    /\ ocr_progress_lock = FrontEnd
    /\ ocr_progress_lock' = Unlocked
    /\ UNCHANGED evars
    /\ UNCHANGED <<pdf_engine, current_pdf_path, ocr_pipeline, ocr_cache, ocr_job_id,
                   worker, prev>>

\* lines 560-571: threading.Thread(...).start()
StartSpawn ==
    /\ caller.pc = "start_spawn"
    /\ \E w \in Workers : ~Alive(w)
    /\ worker' = [worker EXCEPT ![FreeSlot] =
           [NoWorker EXCEPT !.pc = "count", !.job_id = caller.job_id,
                            !.total_pages = caller.page_count, !.page_num = 1]]
    /\ Return(StartResult(TRUE, FALSE, FALSE, caller.page_count))
    /\ UNCHANGED ocr_progress_lock
    /\ UNCHANGED evars
    /\ UNCHANGED <<orch, prev>>

\* ----------------------------------------------------- get_ocr_progress
\* line 577: get_ocr_progress is called
GetOcrProgressCall ==
    /\ caller.pc = "idle"
    /\ Goto([IdleCaller EXCEPT !.pc = "get_progress"])
    /\ prev' = NoResult
    /\ UNCHANGED evars
    /\ UNCHANGED <<orch, ocr_progress_lock, worker>>

\* lines 348-355 and 577-579: the snapshot is taken under the lock
GetOcrProgress ==
    /\ caller.pc = "get_progress"
    /\ Return([op |-> "get_ocr_progress", success |-> TRUE,
               progress |-> GetOcrProgressSnapshot])
    /\ prev' = NoResult
    /\ ocr_progress_lock = FrontEnd
    /\ ocr_progress_lock' = Unlocked
    /\ UNCHANGED evars
    /\ UNCHANGED <<orch, worker>>

\* ------------------------------------------------ _run_ocr_document_job
WGoto(w, rec) ==
    /\ worker' = [worker EXCEPT ![w] = rec]
    /\ ret' = NoResult

WExit(w) ==
    /\ worker' = [worker EXCEPT ![w] = NoWorker]
    /\ ret' = NoResult

\* lines 365-369: one iteration of the baseline count
WorkerCount(w) ==
    LET me == worker[w] IN
    /\ me.pc = "count"
    /\ IF me.page_num > me.total_pages
       THEN WGoto(w, [me EXCEPT !.pc = "start_update"])
       ELSE IF CacheHas(me.page_num)
       THEN WGoto(w, [me EXCEPT !.page_num = @ + 1,
                         !.processed_pages = @ + 1,
                         !.total_lines = @ + Len(ocr_cache[me.page_num])])
       ELSE WGoto(w, [me EXCEPT !.page_num = @ + 1])
    /\ UNCHANGED ocr_progress_lock
    /\ UNCHANGED evars
    /\ UNCHANGED <<orch, caller, prev>>

\* mutant of WorkerStartUpdate: the lock is kept after the start-up update
WorkerStartUpdateKeepsLock(w) ==
    LET me == worker[w] IN
    /\ me.pc = "start_update"
    /\ ocr_progress' = UpdateOcrProgress(
           [status |-> "running", stage |-> "loading_model", job_id |-> me.job_id,
            processed_pages |-> me.processed_pages, total_pages |-> me.total_pages,
            total_lines |-> me.total_lines, error |-> ""])
    /\ WGoto(w, [me EXCEPT !.pc = "ensure"])
    /\ ocr_progress_lock = w
    /\ UNCHANGED evars
    /\ UNCHANGED <<pdf_engine, current_pdf_path, ocr_pipeline, ocr_cache, ocr_job_id,
                   ocr_progress_lock, caller, prev>>

\* lines 371-379
WorkerStartUpdate(w) ==
    LET me == worker[w] IN
    /\ me.pc = "start_update"
    /\ ocr_progress' = UpdateOcrProgress(
           [status |-> "running", stage |-> "loading_model", job_id |-> me.job_id,
            processed_pages |-> me.processed_pages, total_pages |-> me.total_pages,
            total_lines |-> me.total_lines, error |-> ""])
    /\ WGoto(w, [me EXCEPT !.pc = "ensure"])
    /\ ocr_progress_lock = w
    /\ ocr_progress_lock' = Unlocked
    /\ UNCHANGED evars
    /\ UNCHANGED <<pdf_engine, current_pdf_path, ocr_pipeline, ocr_cache, ocr_job_id,
                   caller, prev>>

\* line 382, _ensure_ocr_pipeline lines 315-316
WorkerEnsure(w) ==
    LET me == worker[w] IN
    /\ me.pc = "ensure"
    /\ WGoto(w, [me EXCEPT !.pc = IF ocr_pipeline # NoDoc THEN "stage" ELSE "make"])
    /\ UNCHANGED ocr_progress_lock
    /\ UNCHANGED evars
    /\ UNCHANGED <<orch, caller, prev>>

\* _ensure_ocr_pipeline lines 318-320: OCRPipeline(self.current_pdf_path, ...)
WorkerMake(w) ==
    LET me == worker[w] IN
    /\ me.pc = "make"
    /\ WGoto(w, [me EXCEPT !.pc = "assign", !.pipe = current_pdf_path])
    /\ UNCHANGED ocr_progress_lock
    /\ UNCHANGED evars
    /\ UNCHANGED <<orch, caller, prev>>

\* line 320: the constructed pipeline is stored
WorkerAssign(w) ==
    LET me == worker[w] IN
    /\ me.pc = "assign"
    /\ ocr_pipeline' = me.pipe
    /\ WGoto(w, [me EXCEPT !.pc = "stage", !.pipe = NoDoc])
    /\ UNCHANGED ocr_progress_lock
    /\ UNCHANGED evars
    /\ UNCHANGED <<pdf_engine, current_pdf_path, ocr_cache, ocr_job_id, ocr_progress,
                   caller, prev>>

\* mutant of WorkerStage: the stage update also rewrites the status
WorkerStageSetsStatus(w) ==
    LET me == worker[w] IN
    /\ me.pc = "stage"
    /\ ocr_progress' = UpdateOcrProgress([status |-> "running", stage |-> "ocr_pages"])
    /\ WGoto(w, [me EXCEPT !.pc = "loop", !.page_num = 1])
    /\ ocr_progress_lock = w
    /\ ocr_progress_lock' = Unlocked
    /\ UNCHANGED evars
    /\ UNCHANGED <<pdf_engine, current_pdf_path, ocr_pipeline, ocr_cache, ocr_job_id,
                   caller, prev>>

\* line 383
WorkerStage(w) ==
    LET me == worker[w] IN
    /\ me.pc = "stage"
    /\ ocr_progress' = UpdateOcrProgress([stage |-> "ocr_pages"])
    /\ WGoto(w, [me EXCEPT !.pc = "loop", !.page_num = 1])
    /\ ocr_progress_lock = w
    /\ ocr_progress_lock' = Unlocked
    /\ UNCHANGED evars
    /\ UNCHANGED <<pdf_engine, current_pdf_path, ocr_pipeline, ocr_cache, ocr_job_id,
                   caller, prev>>

\* mutant of WorkerLoop: the loop never looks at the generation id
WorkerLoopNeverCancels(w) ==
    LET me == worker[w] IN
    /\ me.pc = "loop"
    /\ IF me.page_num > me.total_pages
       THEN IF me.job_id = ocr_job_id
            THEN WGoto(w, [me EXCEPT !.pc = "done_update"])
            ELSE WExit(w)
       ELSE IF CacheHas(me.page_num)
       THEN WGoto(w, [me EXCEPT !.page_num = @ + 1])
       ELSE IF ocr_pipeline = NoDoc
       THEN WGoto(w, [me EXCEPT !.pc = "error_update",
                         !.error = "NoneType has no attribute run"])
       ELSE WGoto(w, [me EXCEPT !.pc = "run", !.pipe = ocr_pipeline])
    /\ UNCHANGED ocr_progress_lock
    /\ UNCHANGED evars
    /\ UNCHANGED <<orch, caller, prev>>

\* mutant of WorkerLoop: the loop does not skip pages that are cached
WorkerLoopNoSkip(w) ==
    LET me == worker[w] IN
    /\ me.pc = "loop"
    /\ IF me.page_num > me.total_pages
       THEN IF me.job_id = ocr_job_id
            THEN WGoto(w, [me EXCEPT !.pc = "done_update"])
            ELSE WExit(w)
       ELSE IF me.job_id # ocr_job_id
       THEN WExit(w)
       ELSE IF ocr_pipeline = NoDoc
       THEN WGoto(w, [me EXCEPT !.pc = "error_update",
                         !.error = "NoneType has no attribute run"])
       ELSE WGoto(w, [me EXCEPT !.pc = "run", !.pipe = ocr_pipeline])
    /\ UNCHANGED ocr_progress_lock
    /\ UNCHANGED evars
    /\ UNCHANGED <<orch, caller, prev>>

\* lines 385-393 and 409: the top of one loop iteration up to entering
\* self._ocr_pipeline.run, or the loop exit and the generation comparison
WorkerLoop(w) ==
    LET me == worker[w] IN
    /\ me.pc = "loop"
    /\ IF me.page_num > me.total_pages
       THEN IF me.job_id = ocr_job_id
            THEN WGoto(w, [me EXCEPT !.pc = "done_update"])
            ELSE WExit(w)
       ELSE IF me.job_id # ocr_job_id
       THEN WExit(w)
       ELSE IF CacheHas(me.page_num)
       THEN WGoto(w, [me EXCEPT !.page_num = @ + 1])
       ELSE IF ocr_pipeline = NoDoc
       THEN WGoto(w, [me EXCEPT !.pc = "error_update",
                         !.error = "NoneType has no attribute run"])
       ELSE WGoto(w, [me EXCEPT !.pc = "run", !.pipe = ocr_pipeline])
    /\ UNCHANGED ocr_progress_lock
    /\ UNCHANGED evars
    /\ UNCHANGED <<orch, caller, prev>>

\* lines 393-399: the run returns and its lines are cached, or it raises
\* and the handler of lines 419-420 compares the generation
WorkerRun(w) ==
    LET me == worker[w]
        simplified == PipelineLines(me.pipe, me.page_num)
    IN
    /\ me.pc = "run"
    /\ \/ /\ ocr_cache' = CachePut(me.page_num, simplified)
          /\ WGoto(w, [me EXCEPT !.pc = "page_update", !.pipe = NoDoc,
                          !.processed_pages = @ + 1,
                          !.total_lines = @ + Len(simplified)])
       \/ /\ UNCHANGED ocr_cache
          /\ IF me.job_id = ocr_job_id
             THEN WGoto(w, [me EXCEPT !.pc = "error_update", !.pipe = NoDoc,
                               !.error = "pipeline failed"])
             ELSE WExit(w)
    /\ UNCHANGED ocr_progress_lock
    /\ UNCHANGED evars
    /\ UNCHANGED <<pdf_engine, current_pdf_path, ocr_pipeline, ocr_job_id, ocr_progress,
                   caller, prev>>

\* lines 400-407
WorkerPageUpdate(w) ==
    LET me == worker[w] IN
    /\ me.pc = "page_update"
    /\ ocr_progress' = UpdateOcrProgress(
           [status |-> "running", job_id |-> me.job_id,
            processed_pages |-> me.processed_pages, total_pages |-> me.total_pages,
            total_lines |-> me.total_lines, error |-> ""])
    /\ WGoto(w, [me EXCEPT !.pc = "loop", !.page_num = @ + 1])
    /\ ocr_progress_lock = w
    /\ ocr_progress_lock' = Unlocked
    /\ UNCHANGED evars
    /\ UNCHANGED <<pdf_engine, current_pdf_path, ocr_pipeline, ocr_cache, ocr_job_id,
                   caller, prev>>

\* lines 410-418
WorkerDoneUpdate(w) ==
    LET me == worker[w] IN
    /\ me.pc = "done_update"
    /\ ocr_progress' = UpdateOcrProgress(
           [status |-> "completed", stage |-> "completed", job_id |-> me.job_id,
            processed_pages |-> me.total_pages, total_pages |-> me.total_pages,
            total_lines |-> me.total_lines, error |-> ""])
    /\ WExit(w)
    /\ ocr_progress_lock = w
    /\ ocr_progress_lock' = Unlocked
    /\ UNCHANGED evars
    /\ UNCHANGED <<pdf_engine, current_pdf_path, ocr_pipeline, ocr_cache, ocr_job_id,
                   caller, prev>>

\* mutant of WorkerErrorUpdate: the handler records the message only
WorkerErrorUpdateMessageOnly(w) ==
    LET me == worker[w] IN
    /\ me.pc = "error_update"
    /\ ocr_progress' = UpdateOcrProgress([job_id |-> me.job_id, error |-> me.error])
    /\ WExit(w)
    /\ ocr_progress_lock = w
    /\ ocr_progress_lock' = Unlocked
    /\ UNCHANGED evars
    /\ UNCHANGED <<pdf_engine, current_pdf_path, ocr_pipeline, ocr_cache, ocr_job_id,
                   caller, prev>>

\* lines 421-426
WorkerErrorUpdate(w) ==
    LET me == worker[w] IN
    /\ me.pc = "error_update"
    /\ ocr_progress' = UpdateOcrProgress(
           [status |-> "error", stage |-> "error", job_id |-> me.job_id,
            error |-> me.error])
    /\ WExit(w)
    /\ ocr_progress_lock = w
    /\ ocr_progress_lock' = Unlocked
    /\ UNCHANGED evars
    /\ UNCHANGED <<pdf_engine, current_pdf_path, ocr_pipeline, ocr_cache, ocr_job_id,
                   caller, prev>>

WorkerStep(w) ==
    \/ WorkerAcquire(w)
    \/ WorkerCount(w)
    \/ WorkerStartUpdate(w)
    \/ WorkerEnsure(w)
    \/ WorkerMake(w)
    \/ WorkerAssign(w)
    \/ WorkerStage(w)
    \/ WorkerLoop(w)
    \/ WorkerRun(w)
    \/ WorkerPageUpdate(w)
    \/ WorkerDoneUpdate(w)
    \/ WorkerErrorUpdate(w)

Next ==
    \/ \E d \in Docs : OpenPdfCall(d)
    \/ OpenPdfCleanup
    \/ OpenPdfReset
    \/ OpenPdfConstruct
    \/ \E p \in PageArgs : OcrPageCall(p)
    \/ OcrPageEnsure
    \/ OcrPageMake
    \/ OcrPageAssign
    \/ OcrPageRun
    \/ OcrPageStore
    \/ StartCall
    \/ StartSnapshot
    \/ StartCached
    \/ StartCachedUpdate
    \/ StartRunningUpdate
    \/ StartSpawn
    \/ GetOcrProgressCall
    \/ GetOcrProgress
    \/ CallerAcquire
    \/ \E w \in Workers : WorkerStep(w)

Spec == Init /\ [][Next]_vars

\* a worker that holds the progress lock is runnable: its next step is the
\* dictionary update inside the `with` block, which releases the lock
WorkerRelease(w) == ocr_progress_lock = w /\ WorkerStep(w)

\* the front-end thread inside get_ocr_progress is runnable whenever the
\* lock is free or its own
GetOcrProgressStep ==
    caller.pc = "get_progress" /\ (CallerAcquire \/ GetOcrProgress)

\* scheduling: runnable threads inside or at the lock are eventually run;
\* nothing is assumed about pipeline runs or model loading ever returning
FairSpec ==
    /\ Spec
    /\ WF_vars(GetOcrProgressStep)
    /\ \A w \in Workers : WF_vars(WorkerRelease(w))

\* --------------------------------------------- open_pdf that fails
\* lines 89 and 119-123: PDFEngine(normalized_path) raises (the file is
\* missing or is no PDF); the handler returns success false.  Lines 85-87
\* have already run when a document was open (reopen): its engine is
\* closed and _cleanup_ocr has been executed; self.pdf_engine and
\* current_pdf_path keep their values
OpenPdfConstructFails ==
    /\ caller.pc = "open_construct"
    /\ Return([op |-> "open_pdf", success |-> FALSE, file_path |-> caller.doc,
               page_count |-> 0, gen0 |-> caller.gen0, reopen |-> caller.reopen,
               engine0 |-> pdf_engine])
    /\ UNCHANGED ocr_progress_lock
    /\ UNCHANGED evars
    /\ UNCHANGED <<pdf_engine, current_pdf_path, ocr_pipeline, ocr_cache, ocr_job_id,
                   ocr_progress, worker, prev>>

\* the orchestrator with documents that may fail to open
OpenNext ==
    \/ Next
    \/ OpenPdfConstructFails

OpenSpec == Init /\ [][OpenNext]_vars

\* ---------------------------------------------------------- ocr_document
\* The synchronous call runs on a front-end thread of its own: it calls
\* start_ocr_document (the steps of the start call above, which no other
\* call interleaves here) and then polls get_ocr_progress every 0.1 s
\* while other calls arrive.

\* lines 474-481
OcrDocumentCall ==
    /\ sync.pc = "none"
    /\ caller.pc = "idle"
    /\ IF pdf_engine = NoDoc
       THEN /\ sync' = [NoSync EXCEPT !.result =
                            [op |-> "ocr_document", success |-> FALSE,
                             error |-> "No PDF open"]]
            /\ UNCHANGED <<caller, ret>>
       ELSE IF PageCount(pdf_engine) <= 0
       THEN /\ sync' = [NoSync EXCEPT !.result =
                            [op |-> "ocr_document", success |-> TRUE,
                             page_count |-> 0, total_lines |-> 0]]
            /\ UNCHANGED <<caller, ret>>
       ELSE /\ sync' = [NoSync EXCEPT !.pc = "start",
                                      !.page_count = PageCount(pdf_engine)]
            /\ Goto([IdleCaller EXCEPT !.pc = "start_snapshot",
                                        !.page_count = PageCount(pdf_engine)])
    /\ prev' = NoResult
    /\ UNCHANGED <<engine, eres, svars, heal>>
    /\ UNCHANGED <<pdf_engine, current_pdf_path, ocr_pipeline, ocr_cache, ocr_job_id,
                   ocr_progress, ocr_progress_lock, worker>>

\* lines 481-483: start_ocr_document has returned; with a document open
\* each of its results has success true (lines 518, 523-528, 541-547,
\* 566-571).  The cached flag it passes on to the result is left out
OcrDocumentStarted ==
    /\ sync.pc = "start"
    /\ caller.pc = "idle"
    /\ sync' = [sync EXCEPT !.pc = "poll"]
    /\ UNCHANGED <<engine, eres, svars, heal>>
    /\ UNCHANGED <<pdf_engine, current_pdf_path, ocr_pipeline, ocr_cache, ocr_job_id,
                   ocr_progress, ocr_progress_lock, worker, caller, ret, prev>>

\* lines 487-499: one round of the loop; get_ocr_progress copies the
\* record under the lock.  With a status other than completed and error
\* the thread sleeps and comes back here
OcrDocumentPoll ==
    /\ sync.pc = "poll"
    /\ ocr_progress_lock = Unlocked
    /\ LET progress == GetOcrProgressSnapshot IN
       sync' = IF progress.status = "completed"
               THEN [NoSync EXCEPT !.result =
                         [op |-> "ocr_document", success |-> TRUE,
                          page_count |-> progress.total_pages,
                          total_lines |-> progress.total_lines]]
               ELSE IF progress.status = "error"
               THEN [NoSync EXCEPT !.result =
                         [op |-> "ocr_document", success |-> FALSE,
                          error |-> progress.error]]
               ELSE sync
    /\ UNCHANGED <<engine, eres, svars, heal>>
    /\ UNCHANGED <<pdf_engine, current_pdf_path, ocr_pipeline, ocr_cache, ocr_job_id,
                   ocr_progress, ocr_progress_lock, worker, caller, ret, prev>>

\* open_pdf arrives on another front-end thread while ocr_document polls
\* (or while no ocr_document call is in progress)
DocOpenPdfCall(d) == sync.pc # "start" /\ OpenPdfCall(d)

\* a front-end call in progress goes on
CallerStep ==
    \/ OpenPdfCleanup
    \/ OpenPdfReset
    \/ OpenPdfConstruct
    \/ StartSnapshot
    \/ StartCached
    \/ StartCachedUpdate
    \/ StartRunningUpdate
    \/ StartSpawn
    \/ CallerAcquire

\* the front end calls open_pdf and ocr_document only
DocNext ==
    \/ \E d \in Docs : DocOpenPdfCall(d)
    \/ CallerStep
    \/ OcrDocumentCall
    \/ OcrDocumentStarted
    \/ OcrDocumentPoll
    \/ \E w \in Workers : WorkerStep(w)

DocSpec == Init /\ [][DocNext]_vars

\* scheduling: every thread that can run is eventually run, and every
\* pipeline run terminates (a worker at its run step takes it)
DocFairSpec ==
    /\ DocSpec
    /\ WF_vars(CallerStep)
    /\ WF_vars(OcrDocumentStarted)
    /\ WF_vars(OcrDocumentPoll)
    /\ \A w \in Workers : WF_vars(WorkerStep(w))

\* ======================================================================
\* Document engines (pdf_engine.py, txt_engine.py, docx_engine.py).
\* A text is a sequence of characters; lengths of the DOCX layout are in
\* tenths of a point, so that LINE_HEIGHT_RATIO = 1.4 stays exact.
\* ======================================================================

\* ------------------------------------------------------------ TextEngine
TXT_PAGE_WIDTH == 612
TXT_PAGE_HEIGHT == 792
TXT_MARGIN_TOP == 40
TXT_MARGIN_BOTTOM == 40
TXT_LINE_HEIGHT == 18
CHARS_PER_LINE == 80

\* number of lines of the long text file
TxtLongLines == 40

\* The content of a text file, given as the pieces between its newlines:
\* str.split('\n') of a content with k newlines has k + 1 pieces, and the
\* empty content has the single piece ''.
TxtDocs ==
    { << <<>> >>,
      << <<"a", "b">> >>,
      << <<"a">>, <<>>, <<"b", "a">> >>,
      [i \in 1..TxtLongLines |-> <<"a">>] }

\* int(usable_height / self.LINE_HEIGHT)
LinesPerPage == (TXT_PAGE_HEIGHT - TXT_MARGIN_TOP - TXT_MARGIN_BOTTOM) \div TXT_LINE_HEIGHT

\* textwrap.wrap(line, width, break_long_words=True) of a line without
\* white space: pieces of width characters
RECURSIVE Chunks(_, _)
Chunks(line, width) ==
    IF Len(line) <= width THEN <<line>>
    ELSE <<SubSeq(line, 1, width)>> \o Chunks(SubSeq(line, width + 1, Len(line)), width)

\* the wrapped lines of all pieces in order, an empty piece giving one
\* empty line (the pieces are taken half by half)
RECURSIVE WrappedLines(_)
WrappedLines(pieces) ==
    IF pieces = <<>> THEN <<>>
    ELSE IF Len(pieces) = 1
    THEN (IF pieces[1] = <<>> THEN << <<>> >> ELSE Chunks(pieces[1], CHARS_PER_LINE))
    ELSE LET h == Len(pieces) \div 2
         IN WrappedLines(SubSeq(pieces, 1, h)) \o WrappedLines(SubSeq(pieces, h + 1, Len(pieces)))

\* TextEngine._paginate_text
PaginateText(content) ==
    LET wrapped_lines == WrappedLines(content)
        n == Len(wrapped_lines)
        count == (n + LinesPerPage - 1) \div LinesPerPage
        last(i) == IF i * LinesPerPage < n THEN i * LinesPerPage ELSE n
        pages == [i \in 1..count |->
                    SubSeq(wrapped_lines, (i - 1) * LinesPerPage + 1, last(i))]
    IN IF pages = <<>> THEN << <<>> >> ELSE pages

\* ------------------------------------------------------------ DocxEngine
DOCX_PAGE_WIDTH == 612
DOCX_PAGE_HEIGHT == 792
DOCX_MARGIN_LEFT == 50
DOCX_MARGIN_TOP == 55
DOCX_MARGIN_RIGHT == 50
DOCX_MARGIN_BOTTOM == 55
LINE_HEIGHT_RATIO_X10 == 14
DEFAULT_FONT_SIZE == 12
DEFAULT_SPACE_AFTER == 8

\* number of paragraphs of the long DOCX file
DocxLongParas == 16

\* a paragraph of a DOCX file: the STYLE_MAP key its style name starts
\* with ("_default" when it starts with none) and its text; no paragraph
\* has all of its runs bold
Para(style, text) == [style |-> style, text |-> text]

\* A file whose last paragraph is split by a page break: 14 titles and a
\* default paragraph take 640.8 points of the 682 usable ones, and the
\* last title (26 wide characters, 25 of which fill a line) has room for
\* the first of its two lines only.
SplitDoc ==
    [i \in 1..14 |-> Para("title", <<"a">>)]
        \o <<Para("_default", <<"b">>), Para("title", [i \in 1..26 |-> "W"])>>

\* The paragraphs of a DOCX file.
DocxDocs ==
    { <<>>,
      <<Para("_default", <<"a", "b">>)>>,
      <<Para("heading 1", <<"a">>), Para("_default", <<>>), Para("_default", <<"b", "a">>)>>,
      [i \in 1..DocxLongParas |-> Para("title", <<"a">>)],
      SplitDoc }

\* STYLE_MAP: (font_size, bold, space_after_px)
STYLE_MAP(key) ==
    CASE key = "title" -> <<20, TRUE, 16>>
      [] key = "heading 1" -> <<18, TRUE, 14>>
      [] key = "heading 2" -> <<16, TRUE, 12>>
      [] key = "heading 3" -> <<14, TRUE, 10>>
      [] key = "subtitle" -> <<14, FALSE, 12>>
      [] OTHER -> <<12, FALSE, 8>>

\* _ParagraphInfo(text, font_size, bold, space_after)
ParagraphInfo(text, font_size, bold, space_after) ==
    [text |-> text, font_size |-> font_size, bold |-> bold, space_after |-> space_after]

\* DocxEngine._load_paragraphs
LoadParagraphs(body) ==
    IF body = <<>>
    THEN <<ParagraphInfo(<<>>, DEFAULT_FONT_SIZE, FALSE, DEFAULT_SPACE_AFTER)>>
    ELSE [i \in 1..Len(body) |->
             LET matched == STYLE_MAP(body[i].style)
             IN ParagraphInfo(body[i].text, matched[1], matched[2], matched[3])]

\* font.getlength(char), in tenths of a point: the advance width is the
\* font's; "W" stands for a full-width glyph (1 em), every other
\* character for one of 0.6 em
CharWidth(char, font_size) == IF char = "W" THEN 10 * font_size ELSE 6 * font_size

\* the loop of _wrap_text with the overflowing character dropped
RECURSIVE WrapScanDropsOverflow(_, _, _, _, _, _, _)
WrapScanDropsOverflow(text, i, current_line, current_width, lines, font_size, max_width) ==
    IF i > Len(text)
    THEN IF current_line # <<>> THEN Append(lines, current_line) ELSE lines
    ELSE LET char_width == CharWidth(text[i], font_size) IN
         IF current_width + char_width <= max_width
         THEN WrapScanDropsOverflow(text, i + 1, Append(current_line, text[i]),
                  current_width + char_width, lines, font_size, max_width)
         ELSE WrapScanDropsOverflow(text, i + 1, <<>>, 0,
                  IF current_line # <<>> THEN Append(lines, current_line) ELSE lines,
                  font_size, max_width)

\* the loop of DocxEngine._wrap_text from character i on
RECURSIVE WrapScan(_, _, _, _, _, _, _)
WrapScan(text, i, current_line, current_width, lines, font_size, max_width) ==
    IF i > Len(text)
    THEN IF current_line # <<>> THEN Append(lines, current_line) ELSE lines
    ELSE LET char_width == CharWidth(text[i], font_size) IN
         IF current_width + char_width <= max_width
         THEN WrapScan(text, i + 1, Append(current_line, text[i]),
                       current_width + char_width, lines, font_size, max_width)
         ELSE WrapScan(text, i + 1, <<text[i]>>, char_width,
                       IF current_line # <<>> THEN Append(lines, current_line) ELSE lines,
                       font_size, max_width)

\* DocxEngine._wrap_text
WrapText(text, font_size, max_width) ==
    IF text = <<>> THEN << <<>> >>
    ELSE LET lines == WrapScan(text, 1, <<>>, 0, <<>>, font_size, max_width)
         IN IF lines # <<>> THEN lines ELSE << <<>> >>


\* the lines of the paragraphs k..m, in order, each with the
\* (0-based) index of its paragraph; the space after a paragraph is added
\* after its last line
RECURSIVE ParaLines(_, _, _)
ParaLines(paragraphs, k, m) ==
    IF k > m THEN <<>>
    ELSE IF k = m
    THEN LET para == paragraphs[k]
             wrapped == WrapText(para.text, para.font_size,
                            10 * (DOCX_PAGE_WIDTH - DOCX_MARGIN_LEFT - DOCX_MARGIN_RIGHT))
         IN [j \in 1..Len(wrapped) |->
                [para_idx |-> k - 1, text |-> wrapped[j],
                 font_size |-> para.font_size, bold |-> para.bold,
                 space |-> IF j = Len(wrapped) THEN 10 * para.space_after ELSE 0]]
    ELSE LET h == (k + m) \div 2
         IN ParaLines(paragraphs, k, h) \o ParaLines(paragraphs, h + 1, m)

\* _PageRecord(para_start=k) without lines
PageRecord(k) == [lines |-> <<>>, para_start |-> k, para_end |-> 0]

\* PAGE_HEIGHT - MARGIN_TOP - MARGIN_BOTTOM, in tenths of a point
UsableHeight == 10 * (DOCX_PAGE_HEIGHT - DOCX_MARGIN_TOP - DOCX_MARGIN_BOTTOM)

\* the page-break test applied to where the line starts, not where it ends
NeedsBreakAtStart(current_y, line_height, current_page) ==
    current_y > UsableHeight /\ current_page.lines # <<>>

\* current_y + line_height > usable_height and current_page.lines
NeedsBreak(current_y, line_height, current_page) ==
    current_y + line_height > UsableHeight /\ current_page.lines # <<>>

\* the finished page's range made to include the paragraph being laid out
ClosePageInclusive(current_page, para_idx) ==
    [current_page EXCEPT !.para_end = para_idx + 1]

\* current_page.para_end = para_idx
ClosePage(current_page, para_idx) == [current_page EXCEPT !.para_end = para_idx]

\* the loops of DocxEngine._paginate from line i on
RECURSIVE PaginateFrom(_, _, _, _, _, _)
PaginateFrom(items, i, page_records, current_page, current_y, nparas) ==
    IF i > Len(items)
    THEN Append(page_records, [current_page EXCEPT !.para_end = nparas])
    ELSE LET it == items[i]
             line_height == it.font_size * LINE_HEIGHT_RATIO_X10
             break == NeedsBreak(current_y, line_height, current_page)
             page == IF break THEN PageRecord(it.para_idx) ELSE current_page
             y == IF break THEN 0 ELSE current_y
             rline == [text |-> it.text, y_offset |-> y,
                       font_size |-> it.font_size, bold |-> it.bold]
         IN PaginateFrom(items, i + 1,
                IF break
                THEN Append(page_records, ClosePage(current_page, it.para_idx))
                ELSE page_records,
                [page EXCEPT !.lines = Append(@, rline)],
                y + line_height + it.space, nparas)

\* DocxEngine._paginate
Paginate(paragraphs) ==
    LET page_records == PaginateFrom(ParaLines(paragraphs, 1, Len(paragraphs)), 1, <<>>, PageRecord(0), 0,
                                     Len(paragraphs))
    IN IF page_records = <<>>
       THEN <<[PageRecord(0) EXCEPT !.para_end = Len(paragraphs)]>>
       ELSE page_records

\* ------------------------------------------------------------- PDFEngine
\* The page texts of a PDF file.
PdfDocs ==
    { << <<"a", "b">> >>,
      << <<"a">>, <<"b", "a">> >> }

\* ------------------------------------------------------- engine objects
Files ==
    [kind : {"txt"}, body : TxtDocs] \cup [kind : {"docx"}, body : DocxDocs]
        \cup [kind : {"pdf"}, body : PdfDocs]

\* TextEngine.__init__
TextEngine(f) ==
    LET pages == PaginateText(f.body) IN
    [kind |-> "txt", file |-> f, pages |-> pages, paragraphs |-> <<>>,
     page_count |-> Len(pages), cache |-> <<>>, page_sizes |-> {},
     closed |-> FALSE]

\* DocxEngine.__init__
DocxEngine(f) ==
    LET paragraphs == LoadParagraphs(f.body)
        page_records == Paginate(paragraphs)
    IN [kind |-> "docx", file |-> f, pages |-> page_records, paragraphs |-> paragraphs,
        page_count |-> Len(page_records), cache |-> <<>>, page_sizes |-> {},
        closed |-> FALSE]

\* PDFEngine.__init__
PDFEngine(f) ==
    [kind |-> "pdf", file |-> f, pages |-> f.body, paragraphs |-> <<>>,
     page_count |-> Len(f.body), cache |-> <<>>, page_sizes |-> {},
     closed |-> FALSE]

\* engine_factory.create_engine
CreateEngine(f) ==
    IF f.kind = "pdf" THEN PDFEngine(f)
    ELSE IF f.kind = "docx" THEN DocxEngine(f)
    ELSE TextEngine(f)

\* ---------------------------------------------------- engine operations
\* largest page number passed to an operation; the smallest is its negative
MaxPageArg == 3

PageNumArgs == (0 - MaxPageArg)..MaxPageArg

\* zoom factors passed to render_page, in thousandths (1004 is 1.004)
ZoomArgs == {1000, 1004, 1250}

\* round(zoom, 2), in thousandths, for a zoom that is not halfway between
\* two hundredths
Round2(zoom) == ((zoom + 5) \div 10) * 10

Queries == {<<"a">>, <<>>, <<"w", "w">>}

Outcome(op, ok, page, zoom, value, rendered) ==
    [op |-> op, ok |-> ok, page |-> page, zoom |-> zoom, value |-> value,
     rendered |-> rendered]

\* the exception an operation raises
Raises(op, page, zoom) == Outcome(op, FALSE, page, zoom, <<>>, FALSE)

\* page_num < 1 or page_num > self.page_count
InvalidPage(page_num) == page_num < 1 \/ page_num > engine.page_count

\* the image drawn for a page at a zoom
Image(page_num, zoom) == [file |-> engine.file, page |-> page_num, zoom |-> zoom]

\* '\n'.join(lines)
RECURSIVE JoinLines(_)
JoinLines(lines) ==
    IF lines = <<>> THEN <<>>
    ELSE IF Len(lines) = 1 THEN lines[1]
    ELSE LET h == Len(lines) \div 2
         IN JoinLines(SubSeq(lines, 1, h)) \o <<"\n">> \o JoinLines(SubSeq(lines, h + 1, Len(lines)))

\* str.lower() on the characters of the documents
Lower(ch) ==
    IF ch = "A" THEN "a" ELSE IF ch = "B" THEN "b" ELSE IF ch = "W" THEN "w" ELSE ch

LowerText(text) == [i \in 1..Len(text) |-> Lower(text[i])]

\* the start positions (0-based) in lo..hi of the occurrences of query in
\* text, in ascending order
RECURSIVE FindIn(_, _, _, _)
FindIn(text, query, lo, hi) ==
    IF lo > hi THEN <<>>
    ELSE IF lo = hi
    THEN (IF SubSeq(text, lo + 1, lo + Len(query)) = query THEN <<lo>> ELSE <<>>)
    ELSE LET h == (lo + hi) \div 2
         IN FindIn(text, query, lo, h) \o FindIn(text, query, h + 1, hi)

\* the loop `pos = text.find(query, start); start = pos + 1`: the start
\* positions of the occurrences of query in text from start on
FindAll(text, query, start) == FindIn(text, query, start, Len(text) - Len(query))

\* seq[i] of a Python list of length n: an index in -n..n-1 is accepted
ListIndexOk(n, i) == i >= 0 - n /\ i < n

ListIndex(n, i) == IF i >= 0 THEN i + 1 ELSE n + i + 1

\* self.doc[i] of a fitz document of n pages: i < n is accepted, and a
\* negative i counts from the end
DocIndexOk(n, i) == i < n

DocIndex(n, i) == (i % n) + 1

\* the page that `pn - 1` selects in the engine's page list
PageIndexOk(pn) ==
    IF engine.kind = "pdf" THEN DocIndexOk(Len(engine.pages), pn - 1)
    ELSE ListIndexOk(Len(engine.pages), pn - 1)

PageIndex(pn) ==
    IF engine.kind = "pdf" THEN DocIndex(Len(engine.pages), pn - 1)
    ELSE ListIndex(Len(engine.pages), pn - 1)

\* the hits of a query in the lines l..m of one DOCX page, in order
RECURSIVE LineHits(_, _, _, _, _)
LineHits(lines, l, m, query, pn) ==
    IF l > m THEN <<>>
    ELSE IF l = m
    THEN LET found == FindAll(LowerText(lines[l].text), LowerText(query), 0)
         IN [k \in 1..Len(found) |-> [page |-> pn, line |-> l - 1, pos |-> found[k]]]
    ELSE LET h == (l + m) \div 2
         IN LineHits(lines, l, h, query, pn) \o LineHits(lines, h + 1, m, query, pn)

\* the body of the loop `for pn in pages_to_search` of search_text
PageHits(pn, query) ==
    LET page == engine.pages[PageIndex(pn)] IN
    IF engine.kind = "docx" THEN LineHits(page.lines, 1, Len(page.lines), query, pn)
    ELSE LET page_text == IF engine.kind = "txt" THEN JoinLines(page) ELSE page
             found == IF engine.kind = "pdf" /\ query = <<>> THEN <<>>
                      ELSE FindAll(LowerText(page_text), LowerText(query), 0)
         IN [k \in 1..Len(found) |->
                [page |-> pn,
                 line |-> Cardinality({c \in 1..found[k] : page_text[c] = "\n"}),
                 pos |-> found[k]]]

RECURSIVE SearchFrom(_, _, _)
SearchFrom(pages_to_search, k, query) ==
    IF k > Len(pages_to_search) THEN <<>>
    ELSE PageHits(pages_to_search[k], query) \o SearchFrom(pages_to_search, k + 1, query)

\* [page_num] if page_num else range(1, self.page_count + 1); no_page
\* stands for page_num=None
PagesToSearch(page_num, no_page) ==
    IF ~no_page /\ page_num # 0 THEN <<page_num>>
    ELSE [k \in 1..engine.page_count |-> k]

\* an engine object exists and close() has not been called on it
EngineIsOpen == IF engine.kind = "none" THEN FALSE ELSE ~engine.closed

\* create_engine(file_path): a first engine, or the next one after the
\* previous was closed
EngineOpen(f) ==
    /\ IF engine.kind = "none" THEN TRUE ELSE engine.closed
    /\ engine' = CreateEngine(f)
    /\ eres' = Outcome("open", TRUE, 0, 0, <<>>, FALSE)
    /\ UNCHANGED <<ovars, svars>>

\* self._cache[cache_key] = img_str
RenderCachePut(cache_key, img_str) ==
    [k \in (DOMAIN engine.cache) \cup {cache_key} |->
        IF k = cache_key THEN img_str ELSE engine.cache[k]]

\* render_page with the cache keyed by the zoom as passed, not rounded
RenderPageUnroundedKey(page_num, zoom) ==
    LET cache_key == <<page_num, zoom>> IN
    /\ EngineIsOpen
    /\ IF cache_key \in DOMAIN engine.cache
       THEN /\ eres' = Outcome("render_page", TRUE, page_num, zoom,
                               engine.cache[cache_key], FALSE)
            /\ UNCHANGED engine
       ELSE IF InvalidPage(page_num)
       THEN /\ eres' = Raises("render_page", page_num, zoom)
            /\ UNCHANGED engine
       ELSE /\ engine' = [engine EXCEPT
                             !.cache = RenderCachePut(cache_key, Image(page_num, zoom))]
            /\ eres' = Outcome("render_page", TRUE, page_num, zoom,
                               Image(page_num, zoom), TRUE)
    /\ UNCHANGED <<ovars, svars>>

\* render_page(page_num, zoom) of the three engines
RenderPage(page_num, zoom) ==
    LET cache_key == <<page_num, Round2(zoom)>> IN
    /\ EngineIsOpen
    /\ IF cache_key \in DOMAIN engine.cache
       THEN /\ eres' = Outcome("render_page", TRUE, page_num, zoom,
                               engine.cache[cache_key], FALSE)
            /\ UNCHANGED engine
       ELSE IF InvalidPage(page_num)
       THEN /\ eres' = Raises("render_page", page_num, zoom)
            /\ UNCHANGED engine
       ELSE /\ engine' = [engine EXCEPT
                             !.cache = RenderCachePut(cache_key, Image(page_num, zoom))]
            /\ eres' = Outcome("render_page", TRUE, page_num, zoom,
                               Image(page_num, zoom), TRUE)
    /\ UNCHANGED <<ovars, svars>>

\* extract_text(page_num) of the three engines (rect=None)
ExtractText(page_num) ==
    /\ EngineIsOpen
    /\ IF InvalidPage(page_num)
       THEN eres' = Raises("extract_text", page_num, 0)
       ELSE LET page == engine.pages[page_num]
                text == IF engine.kind = "txt" THEN JoinLines(page)
                        ELSE IF engine.kind = "pdf" THEN page
                        ELSE JoinLines([k \in 1..(page.para_end - page.para_start) |->
                                           engine.paragraphs[page.para_start + k].text])
            IN eres' = Outcome("extract_text", TRUE, page_num, 0, text, FALSE)
    /\ UNCHANGED <<engine, ovars, svars>>

\* get_page_size(page_num) of the three engines; PDFEngine keeps the
\* sizes it has looked up in self._page_sizes
GetPageSize(page_num) ==
    /\ EngineIsOpen
    /\ IF engine.kind = "pdf" /\ page_num \in engine.page_sizes
       THEN /\ eres' = Outcome("get_page_size", TRUE, page_num, 0,
                               <<TXT_PAGE_WIDTH, TXT_PAGE_HEIGHT>>, FALSE)
            /\ UNCHANGED engine
       ELSE IF InvalidPage(page_num)
       THEN /\ eres' = Raises("get_page_size", page_num, 0)
            /\ UNCHANGED engine
       ELSE /\ eres' = Outcome("get_page_size", TRUE, page_num, 0,
                               IF engine.kind = "docx"
                               THEN <<DOCX_PAGE_WIDTH, DOCX_PAGE_HEIGHT>>
                               ELSE <<TXT_PAGE_WIDTH, TXT_PAGE_HEIGHT>>, FALSE)
            /\ engine' = IF engine.kind = "pdf"
                         THEN [engine EXCEPT !.page_sizes = @ \cup {page_num}]
                         ELSE engine
    /\ UNCHANGED <<ovars, svars>>

\* the result of search_text over pages_to_search, kept with its query
Search(query, page_num, pages_to_search) ==
    IF \A k \in 1..Len(pages_to_search) : PageIndexOk(pages_to_search[k])
    THEN Outcome("search_text", TRUE, page_num, 0,
                 [query |-> query, results |-> SearchFrom(pages_to_search, 1, query)], FALSE)
    ELSE Raises("search_text", page_num, 0)

\* search_text(query, page_num) with an explicit page_num
SearchText(query, page_num) ==
    /\ EngineIsOpen
    /\ eres' = Search(query, page_num, PagesToSearch(page_num, FALSE))
    /\ UNCHANGED <<engine, ovars, svars>>

\* search_text(query), page_num=None: the result is marked with page 0
SearchTextAll(query) ==
    /\ EngineIsOpen
    /\ eres' = [Search(query, 0, PagesToSearch(0, TRUE)) EXCEPT !.op = "search_all"]
    /\ UNCHANGED <<engine, ovars, svars>>

\* close() of the three engines.  PDFEngine.close ends with
\* self.doc.close(); the handle is the library's, and closing a handle
\* that is closed already either raises (fitz.Document.close raises
\* ValueError "document closed") or does nothing
EngineClose ==
    /\ engine.kind # "none"
    /\ engine' = [engine EXCEPT
                     !.cache = <<>>,
                     !.page_sizes = {},
                     !.pages = IF engine.kind = "txt" THEN <<>> ELSE @,
                     !.closed = TRUE]
    /\ \E ok \in BOOLEAN :
          /\ ~ok => engine.kind = "pdf" /\ engine.closed
          /\ eres' = Outcome("close", ok, 0, 0, <<>>, FALSE)
    /\ UNCHANGED <<ovars, svars>>

EngineNext ==
    \/ \E f \in Files : EngineOpen(f)
    \/ \E page_num \in PageNumArgs, zoom \in ZoomArgs : RenderPage(page_num, zoom)
    \/ \E page_num \in PageNumArgs : ExtractText(page_num)
    \/ \E page_num \in PageNumArgs : GetPageSize(page_num)
    \/ \E query \in Queries, page_num \in PageNumArgs : SearchText(query, page_num)
    \/ \E query \in Queries : SearchTextAll(query)
    \/ EngineClose

EngineSpec == Init /\ [][EngineNext]_vars

\* ------------------------------------------------- DocxEngine._wrap_text
\* longest text passed to _wrap_text on its own
MaxWrapLen == 4

RECURSIVE TextsOfLen(_)
TextsOfLen(n) ==
    IF n = 0 THEN {<<>>}
    ELSE {Append(t, ch) : t \in TextsOfLen(n - 1), ch \in {"a", "W"}}

WrapTexts == UNION {TextsOfLen(n) : n \in 0..MaxWrapLen}

\* font sizes of STYLE_MAP passed to _wrap_text on its own
WrapFontSizes == {12, 20}

\* widths passed to _wrap_text on its own, in tenths of a point: less
\* than one character, one narrow character, two narrow characters or
\* one wide one, a few characters, the usable width of a page
WrapWidths ==
    {50, 72, 144, 200, 300, 10 * (DOCX_PAGE_WIDTH - DOCX_MARGIN_LEFT - DOCX_MARGIN_RIGHT)}

\* a call self._wrap_text(text, font, max_width); the function keeps no
\* state between calls, so a behaviour makes one call
WrapTextCall(text, font_size, max_width) ==
    /\ eres = NoOutcome
    /\ eres' = Outcome("_wrap_text", TRUE, 0, 0,
                       [text |-> text, font_size |-> font_size, max_width |-> max_width,
                        lines |-> WrapText(text, font_size, max_width)], FALSE)
    /\ UNCHANGED <<engine, ovars, svars>>

WrapNext ==
    \E text \in WrapTexts, font_size \in WrapFontSizes, max_width \in WrapWidths :
        WrapTextCall(text, font_size, max_width)

WrapSpec == Init /\ [][WrapNext]_vars

\* ======================================================================
\* The OCR pipeline (ocr/rendering.py, ocr/normalize.py, ocr/pipeline.py)
\* and DeepReadAPI._simplify_ocr_lines.  Pixel coordinates are whole
\* numbers, coordinates in points are in hundredths of a point, and a
\* confidence is in percent.
\* ======================================================================

\* polygons as the OCR engine returns them, in pixels: an axis-aligned
\* box, a rotated box, a single vertex, no vertex
OcrPolys ==
    { << <<100, 100>>, <<200, 100>>, <<200, 130>>, <<100, 130>> >>,
      << <<150, 80>>, <<220, 150>>, <<150, 220>>, <<80, 150>> >>,
      << <<10, 10>> >>,
      <<>> }

\* the lines Engine.process_image returns
OcrLines == [text : {"a", "b"}, confidence : {95}, bbox : OcrPolys]

\* most lines on a page image
MaxOcrLines == 2

OcrLineLists == UNION {[1..n -> OcrLines] : n \in 0..MaxOcrLines}

\* resolutions a Normalize is built with
Dpis == {72, 150, 300}

\* page heights passed to normalize_to_pdf_coords, in hundredths of a point
PageHeights == {10000, 28800}

\* scale_factor = 72 / self.dpi, in hundredths
ScaleFactor(dpi) == 7200 \div dpi

\* normalize_to_pdf_coords without the flip of the y axis
NormalizeNoFlip(dpi, ocr_lines, page_height) ==
    [k \in 1..Len(ocr_lines) |->
        [text |-> ocr_lines[k].text,
         confidence |-> ocr_lines[k].confidence,
         bbox |-> [v \in 1..Len(ocr_lines[k].bbox) |->
                      <<ocr_lines[k].bbox[v][1] * ScaleFactor(dpi),
                        ocr_lines[k].bbox[v][2] * ScaleFactor(dpi)>>]]]

\* Normalize(dpi).normalize_to_pdf_coords(ocr_lines, page_height)
NormalizeToPdfCoords(dpi, ocr_lines, page_height) ==
    [k \in 1..Len(ocr_lines) |->
        [text |-> ocr_lines[k].text,
         confidence |-> ocr_lines[k].confidence,
         bbox |-> [v \in 1..Len(ocr_lines[k].bbox) |->
                      <<ocr_lines[k].bbox[v][1] * ScaleFactor(dpi),
                        page_height - ocr_lines[k].bbox[v][2] * ScaleFactor(dpi)>>]]]

\* a call Normalize(dpi).normalize_to_pdf_coords(ocr_lines, page_height);
\* the calls of this part keep no state, so a behaviour makes one call
NormalizeCall(dpi, ocr_lines, page_height) ==
    /\ eres = NoOutcome
    /\ eres' = Outcome("normalize_to_pdf_coords", TRUE, 0, 0,
                       [dpi |-> dpi, ocr_lines |-> ocr_lines, page_height |-> page_height,
                        result |-> NormalizeToPdfCoords(dpi, ocr_lines, page_height)], FALSE)
    /\ UNCHANGED <<engine, ovars, svars>>

\* min(...) and max(...) of a non-empty collection of numbers
MinOf(S) == CHOOSE m \in S : \A v \in S : m <= v

MaxOf(S) == CHOOSE m \in S : \A v \in S : m >= v

\* the rectangle of a line taken from its first vertex, as if every
\* polygon started at its top-left corner
SimplifyLineFromFirstVertex(line) ==
    LET xs == {line.bbox[v][1] : v \in 1..Len(line.bbox)}
        ys == {line.bbox[v][2] : v \in 1..Len(line.bbox)}
    IN [text |-> line.text, confidence |-> line.confidence,
        x |-> line.bbox[1][1], y |-> line.bbox[1][2],
        width |-> MaxOf(xs) - line.bbox[1][1], height |-> MaxOf(ys) - line.bbox[1][2]]

\* the body of the loop of _simplify_ocr_lines
SimplifyLine(line) ==
    LET xs == {line.bbox[v][1] : v \in 1..Len(line.bbox)}
        ys == {line.bbox[v][2] : v \in 1..Len(line.bbox)}
    IN [text |-> line.text, confidence |-> line.confidence,
        x |-> MinOf(xs), y |-> MinOf(ys),
        width |-> MaxOf(xs) - MinOf(xs), height |-> MaxOf(ys) - MinOf(ys)]

\* DeepReadAPI._simplify_ocr_lines
SimplifyOcrLines(page_lines) == [k \in 1..Len(page_lines) |-> SimplifyLine(page_lines[k])]

\* the line lists passed to _simplify_ocr_lines: normalized pages
SimplifyInputs == {NormalizeToPdfCoords(150, ocr_lines, 28800) : ocr_lines \in OcrLineLists}

\* a call self._simplify_ocr_lines(page_lines); min() of no vertex raises
SimplifyCall(page_lines) ==
    /\ eres = NoOutcome
    /\ eres' = IF \E k \in 1..Len(page_lines) : page_lines[k].bbox = <<>>
               THEN Outcome("_simplify_ocr_lines", FALSE, 0, 0,
                            [page_lines |-> page_lines, result |-> <<>>], FALSE)
               ELSE Outcome("_simplify_ocr_lines", TRUE, 0, 0,
                            [page_lines |-> page_lines,
                             result |-> SimplifyOcrLines(page_lines)], FALSE)
    /\ UNCHANGED <<engine, ovars, svars>>

\* most pages of a document passed to the pipeline
MaxOcrPages == 3

\* a rendered page of a document: the height of its image and the lines
\* the OCR engine detects on it (none on a blank page)
OcrPageImages ==
    [height_px : {600},
     lines : { <<>>,
               <<[text |-> "a", confidence |-> 95,
                  bbox |-> << <<100, 100>>, <<200, 100>>, <<200, 130>>, <<100, 130>> >>]>>,
               <<[text |-> "b", confidence |-> 95,
                  bbox |-> << <<150, 80>>, <<220, 150>>, <<150, 220>>, <<80, 150>> >>]>> }]

OcrDocs == UNION {[1..n -> OcrPageImages] : n \in 0..MaxOcrPages}

\* OCRPipeline(pdf_path, output_folder, dpi=150)
PIPELINE_DPI == 150

Max2(a, b) == IF a >= b THEN a ELSE b

Min2(a, b) == IF a <= b THEN a ELSE b

\* render_pdf_to_images with range(start, end): the last page left out
RenderPdfToImagesExclusiveEnd(doc, first_page, last_page, no_last) ==
    LET page_count == Len(doc)
        start == Max2(1, first_page)
        end == IF no_last THEN page_count ELSE Min2(last_page, page_count)
    IN IF page_count = 0 THEN <<>>
       ELSE IF start > end THEN <<>>
       ELSE [k \in 1..(end - start) |-> start + k - 1]

\* Renderer.render_pdf_to_images: the pages whose images it returns;
\* no_last stands for last_page=None
RenderPdfToImages(doc, first_page, last_page, no_last) ==
    LET page_count == Len(doc)
        start == Max2(1, first_page)
        end == IF no_last THEN page_count ELSE Min2(last_page, page_count)
    IN IF page_count = 0 THEN <<>>
       ELSE IF start > end THEN <<>>
       ELSE [k \in 1..(end - start + 1) |-> start + k - 1]

\* Engine.process_images
ProcessImages(doc, image_paths) ==
    [k \in 1..Len(image_paths) |-> doc[image_paths[k]].lines]

\* OCRPipeline.run
Run(doc, first_page, last_page, no_last) ==
    LET image_paths == RenderPdfToImages(doc, first_page, last_page, no_last)
        ocr_results == ProcessImages(doc, image_paths)
    IN [k \in 1..Len(image_paths) |->
           NormalizeToPdfCoords(PIPELINE_DPI, ocr_results[k],
               (doc[image_paths[k]].height_px * 7200) \div PIPELINE_DPI)]

\* a call pipeline.run(first_page, last_page) on a document
RunCall(doc, first_page, last_page, no_last) ==
    /\ eres = NoOutcome
    /\ no_last => last_page = 0
    /\ eres' = Outcome("run", TRUE, 0, 0,
                       [doc |-> doc, first_page |-> first_page, last_page |-> last_page,
                        no_last |-> no_last,
                        result |-> Run(doc, first_page, last_page, no_last)], FALSE)
    /\ UNCHANGED <<engine, ovars, svars>>

OcrNext ==
    \/ \E dpi \in Dpis, ocr_lines \in OcrLineLists, page_height \in PageHeights :
           NormalizeCall(dpi, ocr_lines, page_height)
    \/ \E page_lines \in SimplifyInputs : SimplifyCall(page_lines)
    \/ \E doc \in OcrDocs, first_page \in (0 - 1)..(MaxOcrPages + 1),
          last_page \in 0..(MaxOcrPages + 1), no_last \in BOOLEAN :
           RunCall(doc, first_page, last_page, no_last)

OcrSpec == Init /\ [][OcrNext]_vars

\* ======================================================================
\* Local persistence (src/backend/persistence.py), the AI service
\* configuration (src/backend/ai_service.py) and the API calls that use
\* them.  The calls are studied on their own: the OCR state that open_pdf
\* also resets is the subject of Spec.  Strings that the code strips are
\* sequences of tokens (a character, or a word that is never split);
\* last_zoom is in thousandths, timestamps are ticks of a clock.

\* most writes (timestamps taken by _utc_now_iso) in a behaviour
MaxClock == 3

\* file_path arguments, and os.path.abspath(os.path.expanduser(file_path))
PathArgs == {"A", "./A", "B"}

NormalizePath(file_path) ==
    IF file_path \in {"B", "/cwd/B"} THEN "/cwd/B" ELSE "/cwd/A"

AbsPaths == {NormalizePath(file_path) : file_path \in PathArgs}

\* Path(path).name
FileName(path) == IF path = "/cwd/B" THEN "B" ELSE "A"

\* the values get_session_state returns for a document without a row,
\* which are also the DEFAULTs of the columns
DefaultSessionState ==
    [last_page |-> 1, last_zoom |-> 1000, ocr_enabled |-> FALSE, ocr_mode |-> "page"]

\* INSERT OR REPLACE: a conflicting row is replaced by the default one
RecordDocumentOpenedReplaces(documents, path, file_name, now) ==
    [p \in (DOMAIN documents) \cup {path} |->
        IF p = path
        THEN [file_name |-> file_name, last_opened_at |-> now, last_page |-> 1,
              last_zoom |-> 1000, ocr_enabled |-> 0, ocr_mode |-> "page"]
        ELSE documents[p]]

\* PersistenceStore.record_document_opened: the documents table after it
RecordDocumentOpened(documents, path, file_name, now) ==
    [p \in (DOMAIN documents) \cup {path} |->
        IF p # path THEN documents[p]
        ELSE IF path \in DOMAIN documents
        THEN [documents[path] EXCEPT !.file_name = file_name, !.last_opened_at = now]
        ELSE [file_name |-> file_name, last_opened_at |-> now, last_page |-> 1,
              last_zoom |-> 1000, ocr_enabled |-> 0, ocr_mode |-> "page"]]

\* PersistenceStore.save_session_state: the documents table after it
SaveSessionState(documents, path, last_page, last_zoom, ocr_enabled, ocr_mode, now) ==
    LET safe_page == Max2(1, IF last_page = 0 THEN 1 ELSE last_page)
        safe_zoom == IF last_zoom = 0 THEN 1000 ELSE last_zoom
        safe_mode == IF ocr_mode = "document" THEN "document" ELSE "page"
    IN [p \in (DOMAIN documents) \cup {path} |->
           IF p = path
           THEN [file_name |-> FileName(path), last_opened_at |-> now,
                 last_page |-> safe_page, last_zoom |-> safe_zoom,
                 ocr_enabled |-> IF ocr_enabled THEN 1 ELSE 0, ocr_mode |-> safe_mode]
           ELSE documents[p]]

\* PersistenceStore.get_session_state
GetSessionState(documents, path) ==
    IF path \notin DOMAIN documents THEN DefaultSessionState
    ELSE LET row == documents[path] IN
         [last_page |-> Max2(1, IF row.last_page = 0 THEN 1 ELSE row.last_page),
          last_zoom |-> IF row.last_zoom = 0 THEN 1000 ELSE row.last_zoom,
          ocr_enabled |-> row.ocr_enabled # 0,
          ocr_mode |-> IF row.ocr_mode = "document" THEN "document" ELSE "page"]

\* ORDER BY last_opened_at DESC
RECURSIVE OrderByLastOpened(_, _)
OrderByLastOpened(documents, paths) ==
    IF paths = {} THEN <<>>
    ELSE LET p == CHOOSE p \in paths :
                     \A q \in paths : documents[p].last_opened_at >= documents[q].last_opened_at
         IN <<p>> \o OrderByLastOpened(documents, paths \ {p})

\* the rows get_recent_files selects: ... LIMIT safe_limit
RecentRows(documents, limit) ==
    LET safe_limit == Max2(1, IF limit = 0 THEN 20 ELSE limit)
        rows == OrderByLastOpened(documents, DOMAIN documents)
    IN SubSeq(rows, 1, Min2(safe_limit, Len(rows)))

\* str.strip() and str.rstrip("/")
RECURSIVE LStrip(_)
LStrip(s) ==
    IF s = <<>> THEN s
    ELSE IF s[1] = " " THEN LStrip(Tail(s)) ELSE s

RECURSIVE RStrip(_, _)
RStrip(s, ch) ==
    IF s = <<>> THEN s
    ELSE IF s[Len(s)] = ch THEN RStrip(SubSeq(s, 1, Len(s) - 1), ch) ELSE s

Strip(s) == RStrip(LStrip(s), " ")

\* AIService._VALID_PROVIDERS
VALID_PROVIDERS == {"openai", "anthropic", "ollama"}

\* AIService._normalize_provider, on provider names in lower case
NormalizeProvider(provider) ==
    IF provider \in VALID_PROVIDERS THEN provider ELSE "openai"

\* AIService._normalize_base_url
NormalizeBaseUrl(base_url) == RStrip(Strip(base_url), "/")

\* AIService._get_default_model
GetDefaultModel(provider) ==
    IF provider = "anthropic" THEN <<"claude-3-5-haiku-latest">>
    ELSE IF provider = "ollama" THEN <<"llama3.2">>
    ELSE <<"gpt-4o-mini">>

\* AIService(): the service a new DeepReadAPI constructs
NewAIService ==
    [provider |-> "openai", model |-> <<"gpt-4o-mini">>, base_url |-> <<>>, api_key |-> <<>>]

\* AIService.configure; model is <<>> for None and <<m>> for a value m
Configure(service, provider, model, base_url, api_key) ==
    LET new_provider == NormalizeProvider(provider) IN
    [provider |-> new_provider,
     model |-> IF model = <<>> THEN service.model
               ELSE IF Strip(model[1]) = <<>> THEN GetDefaultModel(new_provider)
               ELSE Strip(model[1]),
     base_url |-> NormalizeBaseUrl(base_url),
     api_key |-> Strip(api_key)]

\* AIService._get_provider_env_key
ProviderEnvKey(provider) ==
    IF provider = "anthropic" THEN "ANTHROPIC_API_KEY"
    ELSE IF provider = "openai" THEN "OPENAI_API_KEY"
    ELSE "OLLAMA_API_KEY"

\* AIService.get_config, env being the environment variables that are set
GetConfig(service, env) ==
    [provider |-> service.provider, model |-> service.model,
     base_url |-> service.base_url, api_key |-> service.api_key,
     has_api_key |-> service.api_key # <<>> \/ ProviderEnvKey(service.provider) \in env]

\* PersistenceStore.save_ai_settings: the payload it stores
AiSettingsPayload(base_url, api_key, provider, model) ==
    [base_url |-> RStrip(Strip(base_url), "/"),
     api_key |-> Strip(api_key),
     provider |-> IF provider = "ollama" THEN "ollama" ELSE "openai",
     model |-> IF Strip(model) = <<>> THEN <<"gpt-4o-mini">> ELSE Strip(model)]

\* PersistenceStore.get_ai_settings; app_settings is <<>> without a row
\* 'ai_settings' and <<payload>> with one
PersistenceGetAiSettings(app_settings) ==
    IF app_settings = <<>>
    THEN [base_url |-> <<>>, api_key |-> <<>>, provider |-> "openai",
          model |-> <<"gpt-4o-mini">>]
    ELSE LET payload == app_settings[1] IN
         [base_url |-> RStrip(Strip(payload.base_url), "/"),
          api_key |-> Strip(payload.api_key),
          provider |-> IF payload.provider = "ollama" THEN "ollama" ELSE "openai",
          model |-> IF Strip(payload.model) = <<>> THEN <<"gpt-4o-mini">>
                    ELSE Strip(payload.model)]

\* state arguments of save_session_state; the last one holds values the
\* code replaces (page below 1, zoom 0, unknown mode)
StateArgs ==
    {[last_page |-> 7, last_zoom |-> 1750, ocr_enabled |-> TRUE, ocr_mode |-> "document"],
     [last_page |-> 2, last_zoom |-> 1000, ocr_enabled |-> FALSE, ocr_mode |-> "page"],
     [last_page |-> 0 - 3, last_zoom |-> 0, ocr_enabled |-> TRUE, ocr_mode |-> "auto"]}

\* limit arguments of get_recent_files
LimitArgs == {0, 1, 20}

\* settings arguments of save_ai_settings
SettingsArgs ==
    [provider : {"openai", "anthropic", "ollama", ""},
     model : {<<>>, <<"m">>},
     base_url : {<<>>, <<"u", "/">>, <<" ", "u", "/", "/">>},
     api_key : {<<>>, <<"k">>, <<"k", " ">>}]

\* the environment variables with an API key that may be set
EnvArgs == {{}, {"OPENAI_API_KEY"}}

\* DeepReadAPI.open_pdf(file_path) with persistence available; fitz.open
\* raises for a file that does not exist
StoreOpenPdf(file_path) ==
    LET normalized_path == NormalizePath(file_path) IN
    /\ clock < MaxClock
    /\ IF normalized_path \notin files
       THEN /\ eres' = Outcome("open_pdf", FALSE, 0, 0, [file_path |-> normalized_path], FALSE)
            /\ UNCHANGED <<store, clock, saved, pdf_engine, current_pdf_path>>
       ELSE LET documents == RecordDocumentOpened(store.documents, normalized_path,
                                                  FileName(normalized_path), clock + 1)
            IN /\ store' = [store EXCEPT !.documents = documents]
               /\ clock' = clock + 1
               /\ pdf_engine' = normalized_path
               /\ current_pdf_path' = normalized_path
               /\ eres' = Outcome("open_pdf", TRUE, 0, 0,
                                  [file_path |-> normalized_path,
                                   file_name |-> FileName(normalized_path),
                                   session_state |-> GetSessionState(documents, normalized_path)],
                                  FALSE)
               /\ UNCHANGED saved
    /\ UNCHANGED <<ai_service, files, engine, ocr_pipeline, ocr_cache, ocr_job_id,
                   ocr_progress, ocr_progress_lock, worker, caller, ret, prev, sync, heal>>

\* DeepReadAPI.save_session_state(file_path, state); file_path "" stands
\* for a call without a path
ApiSaveSessionState(file_path, state) ==
    LET target_path == IF file_path = "" THEN current_pdf_path ELSE file_path IN
    /\ clock < MaxClock
    /\ IF target_path = NoDoc
       THEN /\ eres' = Outcome("save_session_state", FALSE, 0, 0, <<>>, FALSE)
            /\ UNCHANGED <<store, clock, saved>>
       ELSE LET path == NormalizePath(target_path)
                last_page == IF state.last_page = 0 THEN 1 ELSE state.last_page
                last_zoom == IF state.last_zoom = 0 THEN 1000 ELSE state.last_zoom
                ocr_mode == IF state.ocr_mode = "" THEN "page" ELSE state.ocr_mode
            IN /\ store' = [store EXCEPT !.documents =
                                SaveSessionState(store.documents, path, last_page, last_zoom,
                                                 state.ocr_enabled, ocr_mode, clock + 1)]
               /\ clock' = clock + 1
               /\ saved' = [saved EXCEPT !.session[path] = <<[state |-> state, pruned |-> FALSE]>>]
               /\ eres' = Outcome("save_session_state", TRUE, 0, 0,
                                  [file_path |-> path, state |-> state], FALSE)
    /\ UNCHANGED <<ai_service, files, engine, ovars>>

\* DeepReadAPI.get_recent_files(limit): the rows of files that no longer
\* exist are deleted
ApiGetRecentFiles(limit) ==
    LET rows == RecentRows(store.documents, limit)
        stale_paths == {rows[k] : k \in {k \in 1..Len(rows) : rows[k] \notin files}}
        valid_rows == SelectSeq(rows, LAMBDA p : p \in files)
    IN /\ store' = [store EXCEPT
                        !.documents =
                            [p \in (DOMAIN store.documents) \ stale_paths |-> store.documents[p]],
                        !.page_notes =
                            [id \in {i \in DOMAIN store.page_notes :
                                         store.page_notes[i].file_path \notin stale_paths}
                                |-> store.page_notes[id]]]
       /\ saved' = [saved EXCEPT !.session =
                        [p \in AbsPaths |->
                            IF p \in stale_paths /\ saved.session[p] # <<>>
                            THEN <<[saved.session[p][1] EXCEPT !.pruned = TRUE]>>
                            ELSE saved.session[p]]]
       /\ eres' = Outcome("get_recent_files", TRUE, 0, 0,
                          [k \in 1..Len(valid_rows) |->
                              LET row == store.documents[valid_rows[k]] IN
                              [file_path |-> valid_rows[k], file_name |-> row.file_name,
                               last_opened_at |-> row.last_opened_at,
                               last_page |-> Max2(1, IF row.last_page = 0 THEN 1
                                                     ELSE row.last_page)]],
                          FALSE)
       /\ UNCHANGED <<ai_service, files, clock, engine, ovars>>

\* the file of a document is deleted or moved away, and comes back
FileRemoved(path) ==
    /\ path \in files
    /\ files' = files \ {path}
    /\ UNCHANGED <<store, ai_service, clock, saved, engine, eres, ovars>>

FileRestored(path) ==
    /\ path \notin files
    /\ files' = files \cup {path}
    /\ UNCHANGED <<store, ai_service, clock, saved, engine, eres, ovars>>

\* DeepReadAPI.save_ai_settings(settings)
ApiSaveAiSettings(settings, env) ==
    LET provider == IF settings.provider = "" THEN "openai" ELSE settings.provider
        base_url == RStrip(Strip(settings.base_url), "/")
        api_key == Strip(settings.api_key)
        model == IF Strip(settings.model) = <<>> THEN <<>> ELSE <<Strip(settings.model)>>
    IN /\ clock < MaxClock
       /\ IF provider = "openai" /\ api_key = <<>> /\ "OPENAI_API_KEY" \notin env
          THEN /\ eres' = Outcome("save_ai_settings", FALSE, 0, 0, <<>>, FALSE)
               /\ UNCHANGED <<store, ai_service, clock, saved>>
          ELSE LET current == Configure(ai_service, provider, model, base_url, api_key) IN
               /\ ai_service' = current
               /\ store' = [store EXCEPT !.app_settings =
                                <<AiSettingsPayload(current.base_url, current.api_key,
                                                    current.provider, current.model)>>]
               /\ clock' = clock + 1
               /\ saved' = [saved EXCEPT !.ai = <<settings>>]
               /\ eres' = Outcome("save_ai_settings", TRUE, 0, 0, GetConfig(current, env), FALSE)
       /\ UNCHANGED <<files, engine, ovars>>

\* DeepReadAPI.get_ai_settings()
ApiGetAiSettings(env) ==
    LET settings == PersistenceGetAiSettings(store.app_settings)
        current == Configure(ai_service, settings.provider, <<settings.model>>,
                             settings.base_url, settings.api_key)
    IN /\ ai_service' = current
       /\ eres' = Outcome("get_ai_settings", TRUE, 0, 0, GetConfig(current, env), FALSE)
       /\ UNCHANGED <<store, files, clock, saved, engine, ovars>>

\* the application is closed and started again: DeepReadAPI() on the same
\* database
Restart ==
    LET stored_ai == PersistenceGetAiSettings(store.app_settings) IN
    /\ eres.op # "restart"
    /\ pdf_engine' = NoDoc
    /\ current_pdf_path' = NoDoc
    /\ ai_service' = Configure(NewAIService, stored_ai.provider, <<stored_ai.model>>,
                               stored_ai.base_url, stored_ai.api_key)
    /\ eres' = Outcome("restart", TRUE, 0, 0, <<>>, FALSE)
    /\ UNCHANGED <<store, files, clock, saved, engine, ocr_pipeline, ocr_cache, ocr_job_id,
                   ocr_progress, ocr_progress_lock, worker, caller, ret, prev, sync, heal>>

StoreNext ==
    \/ \E file_path \in PathArgs : StoreOpenPdf(file_path)
    \/ \E file_path \in PathArgs \cup {""}, state \in StateArgs :
           ApiSaveSessionState(file_path, state)
    \/ \E limit \in LimitArgs : ApiGetRecentFiles(limit)
    \/ \E path \in AbsPaths : FileRemoved(path)
    \/ \E path \in AbsPaths : FileRestored(path)
    \/ Restart

StoreSpec == Init /\ [][StoreNext]_vars

SettingsNext ==
    \/ \E settings \in SettingsArgs, env \in EnvArgs : ApiSaveAiSettings(settings, env)
    \/ \E env \in EnvArgs : ApiGetAiSettings(env)
    \/ Restart

SettingsSpec == Init /\ [][SettingsNext]_vars

\* ------------------------------------------------------------ page notes
\* The page_notes table of src/backend/persistence.py: one row per
\* note_id (the primary key of the table), holding the document's path
\* and the page.  The texts and rectangles of a note are stored and read
\* back unchanged and are left out; the order of a listing is left out.

\* note ids the front end passes, and the note lists built from them
\* (page 0 stands for a note without a page)
NoteIdArgs == {<<>>, <<"n1">>, <<" ", "n2">>}

NoteArgs == [id : NoteIdArgs, page : {0, 2}]

NoteLists == {<<>>} \cup {<<n>> : n \in NoteArgs} \cup {<<n, m>> : n, m \in NoteArgs}

\* save_page_notes lines 303-318: the notes with a non-empty stripped id
SafeNotes(notes) ==
    LET raw == SelectSeq(notes, LAMBDA n : Strip(n.id) # <<>>)
    IN [k \in 1..Len(raw) |->
           [id |-> Strip(raw[k].id),
            page |-> Max2(1, IF raw[k].page = 0 THEN 1 ELSE raw[k].page)]]

\* lines 331-358: INSERT ... ON CONFLICT(note_id) DO UPDATE, one note
\* after the other
RECURSIVE UpsertNotes(_, _, _)
UpsertNotes(page_notes, path, safe_notes) ==
    IF safe_notes = <<>> THEN page_notes
    ELSE LET item == Head(safe_notes)
             row == [file_path |-> path, page |-> item.page]
         IN UpsertNotes([id \in DOMAIN page_notes \cup {item.id} |->
                             IF id = item.id THEN row ELSE page_notes[id]],
                        path, Tail(safe_notes))

\* PersistenceStore.save_page_notes: the table after the call
SavePageNotes(page_notes, file_path, notes) ==
    LET path == NormalizePath(file_path)
        safe_notes == SafeNotes(notes)
        note_ids == {safe_notes[k].id : k \in 1..Len(safe_notes)}
        kept == {id \in DOMAIN page_notes :
                    ~(page_notes[id].file_path = path /\ id \notin note_ids)}
    IN UpsertNotes([id \in kept |-> page_notes[id]], path, safe_notes)

\* PersistenceStore.delete_page_note: the table after the call
DeletePageNote(page_notes, file_path, note_id) ==
    LET path == NormalizePath(file_path)
        nid == Strip(note_id)
    IN IF nid = <<>> THEN page_notes
       ELSE [id \in {i \in DOMAIN page_notes :
                        ~(page_notes[i].file_path = path /\ i = nid)}
                |-> page_notes[id]]

\* PersistenceStore.list_page_notes: the notes listed for a document
ListPageNotes(page_notes, file_path) ==
    LET path == NormalizePath(file_path)
    IN {[id |-> id, page |-> Max2(1, page_notes[id].page)] :
            id \in {i \in DOMAIN page_notes : page_notes[i].file_path = path}}

\* DeepReadAPI.save_page_notes(file_path, notes); file_path "" stands for
\* a call without a path
ApiSavePageNotes(file_path, notes) ==
    LET target_path == IF file_path = "" THEN current_pdf_path ELSE file_path IN
    /\ IF target_path = NoDoc
       THEN /\ eres' = Outcome("save_page_notes", FALSE, 0, 0, <<>>, FALSE)
            /\ UNCHANGED store
       ELSE /\ store' = [store EXCEPT !.page_notes =
                             SavePageNotes(store.page_notes, target_path, notes)]
            /\ eres' = Outcome("save_page_notes", TRUE, 0, 0,
                               [file_path |-> NormalizePath(target_path), notes |-> notes,
                                saved |-> Len(SafeNotes(notes))],
                               FALSE)
    /\ UNCHANGED <<ai_service, files, clock, saved, engine, ovars>>

\* DeepReadAPI.delete_page_note(file_path, note_id)
ApiDeletePageNote(file_path, note_id) ==
    LET target_path == IF file_path = "" THEN current_pdf_path ELSE file_path IN
    /\ IF target_path = NoDoc
       THEN /\ eres' = Outcome("delete_page_note", FALSE, 0, 0, <<>>, FALSE)
            /\ UNCHANGED store
       ELSE /\ store' = [store EXCEPT !.page_notes =
                             DeletePageNote(store.page_notes, target_path, note_id)]
            /\ eres' = Outcome("delete_page_note", TRUE, 0, 0,
                               [file_path |-> NormalizePath(target_path), note_id |-> note_id],
                               FALSE)
    /\ UNCHANGED <<ai_service, files, clock, saved, engine, ovars>>

NotesNext ==
    \/ \E file_path \in PathArgs : StoreOpenPdf(file_path)
    \/ \E file_path \in PathArgs \cup {""}, notes \in NoteLists :
           ApiSavePageNotes(file_path, notes)
    \/ \E file_path \in PathArgs \cup {""}, note_id \in NoteIdArgs :
           ApiDeletePageNote(file_path, note_id)

NotesSpec == Init /\ [][NotesNext]_vars

\* ======================================================================
\* The OCR engine's model cache (src/backend/ocr/engine.py): the
\* directories that hold downloaded models, the clean-up and recovery
\* functions that delete them, and _create_ocr_model_with_recovery.
\* A path is the sequence of its components.  The packages PaddleOCR and
\* PaddleX are outside the repository: a build of the model is a step that
\* returns or raises one of the errors the code tells apart, and the
\* dependency probe can be patched or not.

\* the cache root (DEEPREAD_OCR_MODEL_DIR when explicit, otherwise
\* PADDLE_PDX_CACHE_HOME; ~/.paddlex and ~/.paddleocr do not exist), a
\* directory outside of it, a link outside that points to a model
\* directory, and a link inside the root that points outside
CacheRoot == <<"cache">>

OutsideDir == <<"outside">>

\* Engine.MODEL_PAIRS, one pair
ModelNames == <<"det", "rec">>

OfficialDir(root, model_name) == root \o <<"official_models", model_name>>

OutsideLink == <<"outside", "link">>

InsideLink == <<"cache", "link">>

SymLinks == {OutsideLink, InsideLink}

LinkTarget(link) == IF link = OutsideLink THEN OfficialDir(CacheRoot, "det") ELSE OutsideDir

\* the directories that may hold a model
ModelDirs ==
    {OfficialDir(CacheRoot, "det"), OfficialDir(CacheRoot, "rec"), CacheRoot \o <<"det">>}

IsPrefix(r, p) == Len(r) <= Len(p) /\ SubSeq(p, 1, Len(r)) = r

\* a path without its ".." components
RECURSIVE Collapse(_)
Collapse(p) ==
    IF \E i \in 2..Len(p) : p[i] = ".."
    THEN LET i == CHOOSE i \in 2..Len(p) : p[i] = ".." /\ \A j \in 2..(i - 1) : p[j] # ".."
         IN Collapse(SubSeq(p, 1, i - 2) \o SubSeq(p, i + 1, Len(p)))
    ELSE p

\* Path.resolve(): ".." removed and an existing link followed
Resolve(p, dirs) ==
    LET q == Collapse(p)
        links == {l \in SymLinks \cap dirs : IsPrefix(l, q)}
    IN IF links = {} THEN q
       ELSE LET l == CHOOSE l \in links : TRUE
            IN LinkTarget(l) \o SubSeq(q, Len(l) + 1, Len(q))

\* Path.exists()
PathExists(p, dirs) == Resolve(p, dirs) \in dirs

\* _get_model_cache_roots lines 136-165
GetModelCacheRoots == <<CacheRoot>>

\* _iter_model_dir_candidates lines 167-171
IterModelDirCandidates(root, model_name) ==
    <<OfficialDir(root, model_name), root \o <<model_name>>>>

\* _is_within_allowed_roots lines 206-226: commonpath of the resolved
\* target and a resolved root is the root
IsWithinAllowedRoots(target_dir, allowed_roots, dirs) ==
    \E k \in 1..Len(allowed_roots) :
        IsPrefix(Resolve(allowed_roots[k], dirs), Resolve(target_dir, dirs))

\* shutil.rmtree(target_dir, ignore_errors=True): the directory and all
\* below it are removed (a link below it is removed, not what it points
\* to); on a link rmtree raises, which is ignored
Rmtree(target_dir, dirs) ==
    LET q == Collapse(target_dir)
    IN IF q \in SymLinks THEN dirs
       ELSE {d \in dirs : ~IsPrefix(q, d)}

\* _safe_delete_model_dir lines 228-234: the value returned and the
\* directories left
SafeDeleteModelDir(target_dir, allowed_roots, dirs) ==
    IF ~PathExists(target_dir, dirs)
    THEN [deleted |-> FALSE, dirs |-> dirs]
    ELSE IF ~IsWithinAllowedRoots(target_dir, allowed_roots, dirs)
    THEN [deleted |-> FALSE, dirs |-> dirs]
    ELSE [deleted |-> TRUE, dirs |-> Rmtree(target_dir, dirs)]

\* `if self._safe_delete_model_dir(candidate, allowed_roots): deleted_any
\* = True` for each candidate in turn
RECURSIVE DeleteEach(_, _, _)
DeleteEach(candidates, allowed_roots, fs) ==
    IF candidates = <<>> THEN fs
    ELSE LET r == SafeDeleteModelDir(Head(candidates), allowed_roots, fs.dirs)
         IN DeleteEach(Tail(candidates), allowed_roots,
                       [deleted_any |-> fs.deleted_any \/ r.deleted, dirs |-> r.dirs])

\* the candidate directories of every root and model name
RECURSIVE AllCandidates(_, _)
AllCandidates(roots, names) ==
    IF roots = <<>> THEN <<>>
    ELSE IF names = <<>> THEN AllCandidates(Tail(roots), ModelNames)
    ELSE IterModelDirCandidates(Head(roots), Head(names))
             \o AllCandidates(roots, Tail(names))

\* _cleanup_incomplete_model_cache lines 236-256: the directories left
CleanupIncompleteModelCache(dirs, complete) ==
    LET allowed_roots == GetModelCacheRoots
        incomplete == SelectSeq(AllCandidates(allowed_roots, ModelNames),
                                LAMBDA model_dir :
                                    /\ PathExists(model_dir, dirs)
                                    /\ Resolve(model_dir, dirs) \notin complete)
    IN DeleteEach(incomplete, allowed_roots, [deleted_any |-> FALSE, dirs |-> dirs]).dirs

\* the errors a build or a prediction raises: kind tells what the
\* message and the cause contain; path is the directory of the
\* inference.json file a "Cannot open file" message names
ErrorPaths ==
    {OfficialDir(CacheRoot, "det"), CacheRoot, OutsideDir, OutsideLink, InsideLink,
     <<"cache", "..", "outside">>, OfficialDir(<<"elsewhere">>, "det")}

Errors ==
    [kind : {"mismatch", "extra_dependency", "pipeline_dependency", "other"}, path : {<<>>}]
        \cup [kind : {"broken"}, path : ErrorPaths]

\* a candidate met before is skipped (lines 492-497)
RECURSIVE Dedupe(_, _)
Dedupe(candidates, seen) ==
    IF candidates = <<>> THEN <<>>
    ELSE IF Head(candidates) \in seen THEN Dedupe(Tail(candidates), seen)
    ELSE <<Head(candidates)>> \o Dedupe(Tail(candidates), seen \cup {Head(candidates)})

\* _recover_broken_model_cache lines 458-501: the value returned
\* (deleted_any) and the directories left
RecoverBrokenModelCache(error, dirs) ==
    IF error.kind # "broken" THEN [deleted_any |-> FALSE, dirs |-> dirs]
    ELSE LET allowed_roots == GetModelCacheRoots
             n == Len(error.path)
             by_name == IF n >= 2 /\ error.path[n - 1] = "official_models"
                        THEN AllCandidates(allowed_roots, <<error.path[n]>>)
                        ELSE <<>>
             candidate_dirs == <<error.path>> \o by_name
         IN DeleteEach(Dedupe(candidate_dirs, {}), allowed_roots,
                       [deleted_any |-> FALSE, dirs |-> dirs])

\* _recover_model_name_mismatch lines 503-533: the explicit root is never
\* touched
RecoverModelNameMismatch(error, explicit, dirs) ==
    IF error.kind # "mismatch" THEN [deleted_any |-> FALSE, dirs |-> dirs]
    ELSE LET allowed_roots == GetModelCacheRoots
             roots == IF explicit THEN <<>> ELSE allowed_roots
         IN DeleteEach(AllCandidates(roots, ModelNames), allowed_roots,
                       [deleted_any |-> FALSE, dirs |-> dirs])

\* _is_extra_dependency_error lines 361-369 and
\* _is_pipeline_dependency_error lines 349-359
IsExtraDependencyError(error) == error.kind = "extra_dependency"

IsPipelineDependencyError(error) ==
    error.kind \in {"pipeline_dependency", "extra_dependency"}

HealResult(op, ok, builds) == [op |-> op, ok |-> ok, builds |-> builds]

\* the call ends with an exception
Raise(h) ==
    [h EXCEPT !.pc = "idle", !.result = HealResult("create_ocr_model", FALSE, h.builds)]

\* lines 444-451: a dependency error is raised with its remedy, any other
\* error is raised again unless a broken cache was removed
AfterDependency(h, error) ==
    IF IsPipelineDependencyError(error) THEN Raise(h)
    ELSE LET r == RecoverBrokenModelCache(error, h.dirs) IN
         IF ~r.deleted_any THEN Raise(h)
         ELSE [h EXCEPT !.dirs = CleanupIncompleteModelCache(r.dirs, h.complete),
                        !.pc = "build_retry",
                        !.retried = Append(@, "broken_cache")]

\* mutant of AfterFailure: the retry after a removed cache is handled like
\* the first build, so it is retried as long as a cache can be removed
AfterFailureKeepsRetrying(h, error, patchable) ==
    IF h.pc = "build"
    THEN LET m == RecoverModelNameMismatch(error, h.explicit, h.dirs) IN
         IF m.deleted_any
         THEN [h EXCEPT !.dirs = CleanupIncompleteModelCache(m.dirs, h.complete),
                        !.pc = "build_mismatch",
                        !.retried = Append(@, "model_name_mismatch")]
         ELSE IF IsExtraDependencyError(error) /\ patchable
         THEN [h EXCEPT !.pc = "build_patched",
                        !.retried = Append(@, "dependency_probe")]
         ELSE AfterDependency(h, error)
    ELSE IF h.pc \in {"build_patched", "build_retry"}
    THEN AfterDependency(h, error)
    ELSE Raise(h)

\* lines 431-456: what follows a build that raised error, h.pc telling
\* which build it was (the first, the one after a removed mismatching
\* cache, the one after the patched probe, the one after a removed broken
\* cache)
AfterFailure(h, error, patchable) ==
    IF h.pc = "build"
    THEN LET m == RecoverModelNameMismatch(error, h.explicit, h.dirs) IN
         IF m.deleted_any
         THEN [h EXCEPT !.dirs = CleanupIncompleteModelCache(m.dirs, h.complete),
                        !.pc = "build_mismatch",
                        !.retried = Append(@, "model_name_mismatch")]
         ELSE IF IsExtraDependencyError(error) /\ patchable
         THEN [h EXCEPT !.pc = "build_patched",
                        !.retried = Append(@, "dependency_probe")]
         ELSE AfterDependency(h, error)
    ELSE IF h.pc = "build_patched"
    THEN AfterDependency(h, error)
    ELSE Raise(h)

\* the directories found when the engine is created
HealSetup(explicit, dirs, complete) ==
    /\ heal.pc = "unset"
    /\ complete \subseteq dirs
    /\ heal' = [heal EXCEPT !.pc = "idle", !.explicit = explicit,
                            !.dirs = {CacheRoot, CacheRoot \o <<"official_models">>,
                                      OutsideDir} \cup dirs,
                            !.complete = complete]
    /\ UNCHANGED <<engine, eres, svars, sync, orch, ocr_progress_lock, worker, caller,
                   ret, prev>>

\* Engine.ocr_model with no model loaded: _create_ocr_model_with_recovery
\* line 428
CreateOcrModelCall ==
    /\ heal.pc = "idle"
    /\ heal' = [heal EXCEPT !.pc = "build", !.builds = 0, !.retried = <<>>,
                            !.dirs = CleanupIncompleteModelCache(heal.dirs, heal.complete),
                            !.result = HealResult("none", TRUE, 0)]
    /\ UNCHANGED <<engine, eres, svars, sync, orch, ocr_progress_lock, worker, caller,
                   ret, prev>>

BuildPcs == {"build", "build_mismatch", "build_patched", "build_retry"}

\* _build_ocr_model returns a model
BuildOcrModelReturns ==
    /\ heal.pc \in BuildPcs
    /\ heal' = [heal EXCEPT !.pc = "idle", !.builds = @ + 1,
                            !.result = HealResult("create_ocr_model", TRUE, heal.builds + 1)]
    /\ UNCHANGED <<engine, eres, svars, sync, orch, ocr_progress_lock, worker, caller,
                   ret, prev>>

\* _build_ocr_model raises error; patchable is what
\* _patch_paddlex_dependency_probe would return
BuildOcrModelRaises(error, patchable) ==
    /\ heal.pc \in BuildPcs
    /\ heal' = AfterFailure([heal EXCEPT !.builds = @ + 1], error, patchable)
    /\ UNCHANGED <<engine, eres, svars, sync, orch, ocr_progress_lock, worker, caller,
                   ret, prev>>

\* process_image lines 552-560 and the tests call the recovery functions
\* with the message of an error
RecoverBrokenCall(error) ==
    /\ heal.pc = "idle"
    /\ LET r == RecoverBrokenModelCache(error, heal.dirs) IN
       heal' = [heal EXCEPT !.dirs = r.dirs,
                            !.result = HealResult("recover_broken_model_cache",
                                                  r.deleted_any, 0)]
    /\ UNCHANGED <<engine, eres, svars, sync, orch, ocr_progress_lock, worker, caller,
                   ret, prev>>

RecoverMismatchCall(error) ==
    /\ heal.pc = "idle"
    /\ LET r == RecoverModelNameMismatch(error, heal.explicit, heal.dirs) IN
       heal' = [heal EXCEPT !.dirs = r.dirs,
                            !.result = HealResult("recover_model_name_mismatch",
                                                  r.deleted_any, 0)]
    /\ UNCHANGED <<engine, eres, svars, sync, orch, ocr_progress_lock, worker, caller,
                   ret, prev>>

RecoveryNext ==
    \/ \E explicit \in BOOLEAN, dirs \in SUBSET (ModelDirs \cup SymLinks),
          complete \in SUBSET {OfficialDir(CacheRoot, "det"), OfficialDir(CacheRoot, "rec")} :
           HealSetup(explicit, dirs, complete)
    \/ CreateOcrModelCall
    \/ BuildOcrModelReturns
    \/ \E error \in Errors, patchable \in BOOLEAN : BuildOcrModelRaises(error, patchable)
    \/ \E error \in Errors : RecoverBrokenCall(error)
    \/ \E error \in Errors : RecoverMismatchCall(error)

RecoverySpec == Init /\ [][RecoveryNext]_vars

\* every build returns or raises
RecoveryFairSpec ==
    /\ RecoverySpec
    /\ WF_vars(BuildOcrModelReturns
                  \/ \E error \in Errors, patchable \in BOOLEAN :
                         BuildOcrModelRaises(error, patchable))


\* the worker in slot w takes a step
Moves(w) == Alive(w) /\ worker'[w] # worker[w]

\* the worker in slot w is bound to a generation that is no longer live
Stale(w) == Alive(w) /\ worker[w].job_id # ocr_job_id

\* ------------------------------------------------------------------ C1
\* C1: a worker whose captured generation id differs from the live one
\* never writes an entry into the OCR cache (of the new document).
C1_StaleWorkerNeverWritesCache ==
    [][\A w \in Workers : Stale(w) /\ Moves(w) => ocr_cache' = ocr_cache]_vars

\* ------------------------------------------------------------------ C2
\* C2: once the live generation id differs from a worker's captured one,
\* no step of that worker (start-up, stage, per-page, completion or error
\* update) changes the progress record.
C2_StaleWorkerNeverTouchesProgress ==
    [][\A w \in Workers : Stale(w) /\ Moves(w) => ocr_progress' = ocr_progress]_vars

\* ------------------------------------------------------------------ C3
\* C3: single-flight: a start_ocr_document call made while a job runs
\* spawns no thread, so at most one worker bound to the open document's
\* generation is alive at a time.
C3_SingleFlight ==
    \A v, w \in Workers :
        Alive(v) /\ Alive(w) /\ worker[v].job_id = worker[w].job_id => v = w

\* ------------------------------------------------------------------ C4
\* C4: on a document with N >= 1 pages and a cold cache, a
\* start_ocr_document call returns started:true with total_pages N (and
\* the job then runs to completed unless the document changes or a run
\* fails).  Stated for the call's return, for a call made while no job of
\* the open document is running: the cache is still empty when the call
\* returns only if it was empty throughout the call.
C4_ColdStartReturnsStarted ==
    ret.op = "start" /\ ret.success
        => /\ ret.started => ret.total_pages = PageCount(pdf_engine)
           /\ (ocr_cache = <<>> /\ \A w \in Workers : Alive(w) => Stale(w))
                 => ret.started

\* ------------------------------------------------------------------ C5
\* C5: a start_ocr_document call that is not answered already_running
\* takes the cached path (started:false, cached:true, no worker) if and
\* only if every page 1..page_count had a cache entry when it looked.
C5_CachedPathIffAllCached ==
    ret.op = "start" /\ ret.success /\ ~ret.already_running
        => (ret.cached <=> ret.all_cached)

\* ------------------------------------------------------------------ C6
\* C6: of two consecutive successful ocr_page(p) calls with no document
\* change in between, the second returns exactly the lines of the first,
\* and the two invoke the pipeline at most once in total.
C6_CacheIdempotence ==
    [][(/\ ret'.op = "ocr_page"
        /\ ret'.success
        /\ prev.op = "ocr_page"
        /\ prev.page = ret'.page)
          => ret'.lines = prev.lines /\ ~(ret'.ran /\ prev.ran)]_vars

\* ------------------------------------------------------------------ C7
\* C7 as claimed: every open_pdf, the first included, has incremented the
\* generation id when it returns.
C7_EveryOpenIncrements ==
    ret.op = "open_pdf" => ocr_job_id = ret.gen0 + 1

\* C7 as amended: an open_pdf issued while a document is open runs
\* _cleanup_ocr, which increments the generation id by exactly one,
\* empties the cache and drops the pipeline, and then resets progress to
\* idle/idle with zero counters, an empty error and the live generation
\* id; the first open runs no cleanup and leaves the generation id as is.
C7_ReopenResets ==
    [][/\ (caller.pc = "open_cleanup" /\ caller'.pc # "open_cleanup")
            => /\ ocr_job_id' = ocr_job_id + 1
               /\ ocr_cache' = <<>>
               /\ ocr_pipeline' = NoDoc
       /\ (caller.pc = "open_reset" /\ caller'.pc # "open_reset")
            => /\ ocr_progress'.status = "idle"
               /\ ocr_progress'.stage = "idle"
               /\ ocr_progress'.job_id = ocr_job_id'
               /\ ocr_progress'.processed_pages = 0
               /\ ocr_progress'.total_pages = 0
               /\ ocr_progress'.total_lines = 0
               /\ ocr_progress'.error = ""
       /\ ret'.op = "open_pdf"
            => ocr_job_id' = ret'.gen0 + (IF ret'.reopen THEN 1 ELSE 0)]_vars

\* a re-open has just cleared a cache that held pages and is about to
\* reset the progress of a job that was not idle
C7_Witness ==
    /\ caller.pc = "open_reset"
    /\ ocr_job_id = caller.gen0 + 1
    /\ ocr_cache = <<>>
    /\ ocr_progress.status = "completed"

\* ------------------------------------------------------------------ C8
\* C8: no step decreases the generation id, and a step that changes it
\* (_cleanup_ocr) leaves it strictly greater than the generation id
\* captured by every worker and by a start call about to spawn one.
C8_GenerationMonotonic ==
    [][/\ ocr_job_id' >= ocr_job_id
       /\ (caller.pc = "open_cleanup" /\ caller'.pc # "open_cleanup")
            => /\ \A w \in Workers : Alive(w) => worker[w].job_id < ocr_job_id'
               /\ ocr_progress.job_id < ocr_job_id']_vars

\* a cleanup has just run while a worker of the previous generation lives
C8_Witness ==
    /\ caller.pc = "open_reset"
    /\ \E w \in Workers : Alive(w) /\ worker[w].job_id + 1 = ocr_job_id

LockHeldOnlyForUpdate ==
    /\ ocr_progress_lock \in {Unlocked, FrontEnd} \cup Workers
    /\ ocr_progress_lock = FrontEnd => caller.pc \in CallerLockPcs
    /\ \A w \in Workers : ocr_progress_lock = w => worker[w].pc \in WorkerLockPcs

\* C11: the progress lock is held only for the dictionary copy or update
\* of a `with` block (never during a pipeline run, a construction or the
\* temp-directory deletion, never while acquiring a lock), and every
\* get_ocr_progress call returns with success, whatever the workers do and
\* even if a pipeline run never returns.
C11_GetProgressNeverBlocks ==
    /\ []LockHeldOnlyForUpdate
    /\ (caller.pc = "get_progress") ~> (ret.op = "get_ocr_progress" /\ ret.success)

\* get_ocr_progress is waiting for the lock, held by a worker, while
\* another worker is inside a pipeline run
C11_Witness ==
    /\ caller.pc = "get_progress"
    /\ \E w \in Workers : ocr_progress_lock = w
    /\ \E w \in Workers : worker[w].pc = "run"

\* ----------------------------------------------------------------- C12
\* C12: when the pipeline raises inside a worker whose generation is
\* current, the worker goes to its handler with the message; when it
\* applies the handler's update with its generation still current, the
\* job ends (the thread exits) with status error, stage error and the
\* message in progress.error; and while the generation is unchanged no
\* step (the failure and its handler included) removes a cached page.
C12_WorkerFailureRecorded ==
    [][/\ \A w \in Workers :
            /\ (/\ worker[w].pc = "run"
                /\ worker'[w].pc \notin {"run", "page_update"}
                /\ ~Stale(w))
                  => /\ worker'[w].pc = "error_update"
                     /\ worker'[w].error # ""
            /\ (worker[w].pc = "error_update" /\ Moves(w) /\ ~Stale(w))
                  => /\ worker'[w] = NoWorker
                     /\ ocr_progress'.status = "error"
                     /\ ocr_progress'.stage = "error"
                     /\ ocr_progress'.error = worker[w].error
                     /\ ocr_progress'.job_id = ocr_job_id
       /\ ocr_job_id' = ocr_job_id
            => DOMAIN ocr_cache \subseteq DOMAIN ocr_cache']_vars

\* a job of the open document has failed on its second page: the error
\* is recorded and the first page is still cached
C12_Witness ==
    /\ ocr_progress.status = "error"
    /\ ocr_progress.stage = "error"
    /\ ocr_progress.error = "pipeline failed"
    /\ ocr_progress.job_id = ocr_job_id
    /\ ocr_progress.processed_pages = 1
    /\ 1 \in DOMAIN ocr_cache
    /\ \A w \in Workers : ~Alive(w)

\* ----------------------------------------------------------------- C13
\* C13: an ocr_page(p) call that succeeds has p within [1, page_count],
\* and every key of the OCR cache lies within [1, page_count] of the
\* open document.
C13_CacheKeysInRange ==
    pdf_engine # NoDoc =>
        /\ (ret.op = "ocr_page" /\ ret.success) => ret.page \in 1..PageCount(pdf_engine)
        /\ DOMAIN ocr_cache \subseteq 1..PageCount(pdf_engine)

\* ----------------------------------------------------------------- C14
\* C14: an ocr_page(p) call whose pipeline run fails returns
\* success:false with the error, its failing step adds no cache entry,
\* and no step of an ocr_page call changes the progress record.
C14_PageFailureSynchronous ==
    [][/\ (ret'.op = "ocr_page" /\ ~ret'.success)
            => /\ ret'.error # ""
               /\ ocr_cache' = ocr_cache
       /\ (/\ caller.pc \in {"page_ensure", "page_make", "page_assign",
                              "page_run", "page_store"}
           /\ caller' # caller)
            => ocr_progress' = ocr_progress]_vars

\* an ocr_page call has just failed while a background job is running,
\* and its page is not cached
C14_Witness ==
    /\ ret.op = "ocr_page"
    /\ ~ret.success
    /\ ret.error = "pipeline failed"
    /\ ret.page \notin DOMAIN ocr_cache
    /\ ocr_progress.status = "running"

C16_PipelineBoundToCurrent ==
    /\ ocr_pipeline # NoDoc => ocr_pipeline = current_pdf_path
    /\ (ret.op = "ocr_page" /\ ret.success)
          => ret.lines = PipelineLines(current_pdf_path, ret.page)

\* ----------------------------------------------------------------------
\* C17: for every engine and every page-addressed operation (render_page,
\* extract_text, get_page_size, search_text with an explicit page_num), a
\* page_num outside [1, page_count] results in an error: the operation
\* returns no result, and no cache holds an entry for such a page.
C17_OutOfRangeFails ==
    engine.kind # "none" =>
        /\ (/\ eres.op \in {"render_page", "extract_text", "get_page_size", "search_text"}
            /\ InvalidPage(eres.page)) => ~eres.ok
        /\ \A key \in DOMAIN engine.cache : ~InvalidPage(key[1])
        /\ \A page_num \in engine.page_sizes : ~InvalidPage(page_num)


\* ----------------------------------------------------------------------
\* C18: render_page results are cached under (page_num, zoom rounded to 2
\* decimals).  Every entry of the render cache is the image of its key's
\* page of the engine's file, rendered at a zoom that rounds to its key's
\* zoom, and its page is valid.  A render_page call whose key is in the
\* cache returns the stored image without rendering and changes nothing; a
\* successful call leaves its result stored under its key; no operation
\* but close() removes or replaces an entry; close() leaves the cache empty.
RenderCacheSound ==
    engine.kind # "none" =>
        \A key \in DOMAIN engine.cache :
            /\ ~InvalidPage(key[1])
            /\ engine.cache[key].file = engine.file
            /\ engine.cache[key].page = key[1]
            /\ Round2(engine.cache[key].zoom) = key[2]

RenderCacheStep ==
    LET key == <<eres'.page, Round2(eres'.zoom)>> IN
    /\ (eres'.op = "render_page" /\ key \in DOMAIN engine.cache) =>
           /\ eres'.ok /\ ~eres'.rendered
           /\ eres'.value = engine.cache[key]
           /\ engine' = engine
    /\ (eres'.op = "render_page" /\ eres'.ok) =>
           /\ key \in DOMAIN engine'.cache
           /\ engine'.cache[key] = eres'.value
    /\ (engine.kind # "none" /\ eres'.op \notin {"open", "close"}) =>
           \A k \in DOMAIN engine.cache :
               k \in DOMAIN engine'.cache /\ engine'.cache[k] = engine.cache[k]
    /\ eres'.op = "close" => engine'.cache = <<>>

C18_RenderCache == []RenderCacheSound /\ [][RenderCacheStep]_vars

\* a call at zoom 1.004 is answered with the image rendered at zoom 1.0
C18_Witness ==
    /\ eres.op = "render_page" /\ eres.ok /\ ~eres.rendered
    /\ eres.zoom = 1004 /\ eres.value.zoom = 1000
    /\ ~engine.closed


\* ----------------------------------------------------------------------
\* C19: close() is idempotent for every engine: every call raises no error
\* and leaves all caches empty, and a call on an engine that is closed
\* already leaves the engine as the first call left it.
C19_CloseIdempotent ==
    [][eres'.op = "close" =>
          /\ eres'.ok
          /\ engine'.cache = <<>> /\ engine'.page_sizes = {}
          /\ engine.closed => engine' = engine]_vars


\* ----------------------------------------------------------------------
\* C20: for each synthetic-pagination engine (TextEngine, DocxEngine), a
\* document with zero paragraphs (empty content) yields page_count = 1,
\* that single page holds zero lines, and extract_text(1) returns the
\* empty string.
EmptyDocument ==
    /\ EngineIsOpen
    /\ \/ engine.kind = "txt" /\ engine.file.body = << <<>> >>
       \/ engine.kind = "docx" /\ engine.file.body = <<>>

C20_EmptyDocumentOnePageNoLines ==
    EmptyDocument =>
        /\ engine.page_count = 1
        /\ Len(engine.pages) = 1
        /\ (IF engine.kind = "txt" THEN engine.pages[1] ELSE engine.pages[1].lines) = <<>>
        /\ (eres.op = "extract_text" /\ eres.page = 1) => (eres.ok /\ eres.value = <<>>)


\* ----------------------------------------------------------------------
\* C30: greedy wrapping (DocxEngine._wrap_text): for every text and width
\* the concatenation of the returned lines is the input text; an empty
\* text yields the single line ""; no returned line is empty for a
\* non-empty text; every line's width (the sum of the widths of its
\* characters) is <= the width unless the line is a single character; and
\* each line is maximal: with the first character of the next line it
\* would exceed the width.
RECURSIVE ConcatLines(_)
ConcatLines(lines) ==
    IF lines = <<>> THEN <<>> ELSE Head(lines) \o ConcatLines(Tail(lines))

RECURSIVE LineWidth(_, _)
LineWidth(line, font_size) ==
    IF line = <<>> THEN 0
    ELSE CharWidth(Head(line), font_size) + LineWidth(Tail(line), font_size)

C30_GreedyWrap ==
    eres.op = "_wrap_text" =>
        LET text == eres.value.text
            lines == eres.value.lines
            font_size == eres.value.font_size
            max_width == eres.value.max_width
        IN /\ ConcatLines(lines) = text
           /\ text = <<>> => lines = << <<>> >>
           /\ text # <<>> => \A k \in 1..Len(lines) : lines[k] # <<>>
           /\ \A k \in 1..Len(lines) :
                  Len(lines[k]) = 1 \/ LineWidth(lines[k], font_size) <= max_width
           /\ \A k \in 1..(Len(lines) - 1) :
                  LineWidth(lines[k], font_size) + CharWidth(lines[k + 1][1], font_size)
                      > max_width

\* a text wrapped into a line of two characters, a single character wider
\* than the width, and a rest
C30_Witness ==
    /\ eres.op = "_wrap_text"
    /\ eres.value.text = <<"a", "a", "W", "a">>
    /\ eres.value.font_size = 12 /\ eres.value.max_width = 144
    /\ eres.value.lines = << <<"a", "a">>, <<"W">>, <<"a">> >>


\* ----------------------------------------------------------------------
\* Pagination of a DocxEngine, read off its page records.
\* the wrapped lines of all paragraphs, in the order they are laid out
LaidOutLines == ParaLines(engine.paragraphs, 1, Len(engine.paragraphs))

\* the number of lines on the pages before page p
RECURSIVE LinesBefore(_)
LinesBefore(p) ==
    IF p <= 1 THEN 0 ELSE LinesBefore(p - 1) + Len(engine.pages[p - 1].lines)

\* the height of a rendered line: font_size * LINE_HEIGHT_RATIO
LineHeight(rline) == rline.font_size * LINE_HEIGHT_RATIO_X10

\* the running offset after line l of page p: below the line, and below
\* the space after its paragraph when it is the paragraph's last line
OffsetAfter(p, l) ==
    LET rline == engine.pages[p].lines[l]
    IN rline.y_offset + LineHeight(rline) + LaidOutLines[LinesBefore(p) + l].space

\* C28: in DocxEngine pagination every page has at least one line, the
\* first line of every page is at vertical offset 0, offsets strictly
\* increase within a page, and every line satisfies y_offset + line_height
\* <= usable page height; a page break happens exactly when the next line
\* would exceed the usable height and the current page is non-empty: a
\* line after the first of its page is at the running offset and fits
\* there, and the first line of a later page did not fit at the running
\* offset of the page before.
C28_PageLayout ==
    engine.kind = "docx" =>
        /\ LinesBefore(Len(engine.pages) + 1) = Len(LaidOutLines)
        /\ \A p \in 1..Len(engine.pages) :
               LET lines == engine.pages[p].lines IN
               /\ lines # <<>>
               /\ lines[1].y_offset = 0
               /\ \A l \in 1..Len(lines) :
                      /\ lines[l].text = LaidOutLines[LinesBefore(p) + l].text
                      /\ lines[l].y_offset + LineHeight(lines[l]) <= UsableHeight
               /\ \A l \in 2..Len(lines) :
                      /\ lines[l].y_offset > lines[l - 1].y_offset
                      /\ lines[l].y_offset = OffsetAfter(p, l - 1)
               /\ p > 1 =>
                      OffsetAfter(p - 1, Len(engine.pages[p - 1].lines)) + LineHeight(lines[1])
                          > UsableHeight

\* a page break inside a paragraph: the second page starts with the second
\* line of the paragraph whose first line ends the first page
C28_Witness ==
    /\ engine.kind = "docx" /\ Len(engine.pages) = 2
    /\ LaidOutLines[LinesBefore(2)].para_idx = LaidOutLines[LinesBefore(2) + 1].para_idx
    /\ engine.pages[2].lines[1].y_offset = 0


\* ----------------------------------------------------------------------
\* the (0-based) indices of the paragraphs that have a line on page p
ParagraphsOnPage(p) ==
    {LaidOutLines[LinesBefore(p) + l].para_idx : l \in 1..Len(engine.pages[p].lines)}

\* C29: for every page produced by DocxEngine pagination, the recorded
\* half-open range [para_start, para_end) is exactly the set of paragraph
\* indices that contribute at least one line to that page.
C29_RangeIsContributors ==
    engine.kind = "docx" =>
        \A p \in 1..Len(engine.pages) :
            ParagraphsOnPage(p) = engine.pages[p].para_start..(engine.pages[p].para_end - 1)

\* the paragraph texts of the (0-based) half-open range [from, to)
ParagraphTexts(from, to) ==
    [k \in 1..(to - from) |-> engine.paragraphs[from + k].text]

\* the ranges of the pages from page p on, one after the other
RECURSIVE RangesFrom(_)
RangesFrom(p) ==
    IF p > Len(engine.pages) THEN <<>>
    ELSE ParagraphTexts(engine.pages[p].para_start, engine.pages[p].para_end)
             \o RangesFrom(p + 1)

\* C21: extraction round trip (DocxEngine): the per-page paragraph ranges
\* are contiguous and in order (first para_start = 0, each page's
\* para_start equals the previous page's para_end, last para_end = number
\* of paragraphs), so the ranges of the pages, one after the other, are
\* the paragraphs in original order, each once; and extract_text of a page
\* is the newline-joined unwrapped texts of the paragraphs of its range.
C21_ExtractionRoundTrip ==
    engine.kind = "docx" =>
        /\ engine.pages[1].para_start = 0
        /\ engine.pages[Len(engine.pages)].para_end = Len(engine.paragraphs)
        /\ \A p \in 1..Len(engine.pages) :
               engine.pages[p].para_start <= engine.pages[p].para_end
        /\ \A p \in 2..Len(engine.pages) :
               engine.pages[p].para_start = engine.pages[p - 1].para_end
        /\ RangesFrom(1) = ParagraphTexts(0, Len(engine.paragraphs))
        /\ (eres.op = "extract_text" /\ eres.ok) =>
               eres.value = JoinLines(ParagraphTexts(engine.pages[eres.page].para_start,
                                                     engine.pages[eres.page].para_end))

\* the text of the split paragraph is extracted whole from the second
\* page, although its first line is on the first
C21_Witness ==
    /\ engine.kind = "docx" /\ engine.file.body = SplitDoc
    /\ eres.op = "extract_text" /\ eres.ok /\ eres.page = 2
    /\ eres.value = SplitDoc[16].text
    /\ Len(engine.pages[2].lines[1].text) < Len(eres.value)


\* ----------------------------------------------------------------------
\* the start positions (0-based) at which the lower-cased query occurs in
\* the lower-cased text
Occurrences(text, query) ==
    {pos \in 0..(Len(text) - Len(query)) :
        \A c \in 1..Len(query) : Lower(text[pos + c]) = Lower(query[c])}

\* one hit per occurrence of the query on page pn of a synthetic-pagination
\* engine: in the page text of a TextEngine, in each line of a DocxEngine
ExpectedHits(pn, query) ==
    IF InvalidPage(pn) THEN {}
    ELSE IF engine.kind = "txt"
    THEN LET page_text == JoinLines(engine.pages[pn])
         IN {[page |-> pn,
              line |-> Cardinality({c \in 1..pos : page_text[c] = "\n"}),
              pos |-> pos] : pos \in Occurrences(page_text, query)}
    ELSE UNION {{[page |-> pn, line |-> l - 1, pos |-> pos] :
                    pos \in Occurrences(engine.pages[pn].lines[l].text, query)} :
                l \in 1..Len(engine.pages[pn].lines)}

\* the hits on a set of pages
HitsOf(pages_searched, query) == UNION {ExpectedHits(pn, query) : pn \in pages_searched}

\* C22: for every query (the empty string included), search_text on a
\* synthetic-pagination engine returns exactly one result per start
\* position at which the lower-cased query occurs in the lower-cased text,
\* with results in ascending page order when page_num is omitted and all
\* carrying page = page_num otherwise.
C22_SearchResults ==
    (engine.kind \in {"txt", "docx"} /\ eres.op \in {"search_text", "search_all"} /\ eres.ok) =>
        LET hits == eres.value.results
            query == eres.value.query
            pages_searched == IF eres.op = "search_all" THEN 1..engine.page_count
                              ELSE {eres.page}
        IN /\ {hits[k] : k \in 1..Len(hits)} = HitsOf(pages_searched, query)
           /\ Len(hits) = Cardinality(HitsOf(pages_searched, query))
           /\ \A j, k \in 1..Len(hits) : j < k => hits[j].page <= hits[k].page
           /\ eres.op = "search_text" => \A k \in 1..Len(hits) : hits[k].page = eres.page


\* ----------------------------------------------------------------------
\* C23: normalization maps every pixel vertex (x, y) to (x * 72 / dpi,
\* page_height - y * 72 / dpi), keeps the number and order of lines and of
\* vertices, and leaves text and confidence unchanged; with dpi = 150 and
\* page_height = 288 the vertex (100, 100) becomes (48, 240).
C23_Normalization ==
    eres.op = "normalize_to_pdf_coords" =>
        LET dpi == eres.value.dpi
            ocr_lines == eres.value.ocr_lines
            page_height == eres.value.page_height
            result == eres.value.result
        IN /\ Len(result) = Len(ocr_lines)
           /\ \A k \in 1..Len(ocr_lines) :
                  /\ result[k].text = ocr_lines[k].text
                  /\ result[k].confidence = ocr_lines[k].confidence
                  /\ Len(result[k].bbox) = Len(ocr_lines[k].bbox)
                  /\ \A v \in 1..Len(ocr_lines[k].bbox) :
                         /\ result[k].bbox[v][1] * dpi = ocr_lines[k].bbox[v][1] * 7200
                         /\ (page_height - result[k].bbox[v][2]) * dpi
                                = ocr_lines[k].bbox[v][2] * 7200
           /\ (dpi = 150 /\ page_height = 28800) =>
                  \A k \in 1..Len(ocr_lines) : \A v \in 1..Len(ocr_lines[k].bbox) :
                      ocr_lines[k].bbox[v] = <<100, 100>> => result[k].bbox[v] = <<4800, 24000>>

\* the fixture: dpi 150, page height 288 points, a line whose first vertex
\* is (100, 100)
C23_Witness ==
    /\ eres.op = "normalize_to_pdf_coords"
    /\ eres.value.dpi = 150 /\ eres.value.page_height = 28800
    /\ Len(eres.value.ocr_lines) = 2
    /\ eres.value.ocr_lines[1].bbox # <<>>
    /\ eres.value.ocr_lines[1].bbox[1] = <<100, 100>>
    /\ eres.value.result[1].bbox[1] = <<4800, 24000>>


\* ----------------------------------------------------------------------
\* C24: OCRPipeline.run(first_page, last_page) on a document of n pages
\* returns exactly one line list per page of the clamped range
\* max(1, first_page)..min(last_page, n) (last_page None meaning n), in
\* ascending page order; it returns an empty list (no error) when that
\* range is empty, and a page with no detected text contributes an empty
\* list.
C24_RunClampedRange ==
    eres.op = "run" =>
        LET doc == eres.value.doc
            result == eres.value.result
            n == Len(doc)
            first == IF eres.value.first_page >= 1 THEN eres.value.first_page ELSE 1
            last == IF eres.value.no_last \/ eres.value.last_page >= n THEN n
                    ELSE eres.value.last_page
        IN /\ eres.ok
           /\ first > last => result = <<>>
           /\ first <= last => Len(result) = last - first + 1
           /\ \A k \in 1..Len(result) :
                  LET page_lines == doc[first + k - 1].lines IN
                  /\ Len(result[k]) = Len(page_lines)
                  /\ \A l \in 1..Len(page_lines) : result[k][l].text = page_lines[l].text
                  /\ page_lines = <<>> => result[k] = <<>>

\* run(0, 5) on a document of three pages, the second of them blank:
\* three line lists, those of pages 1, 2, 3
C24_Witness ==
    /\ eres.op = "run" /\ Len(eres.value.doc) = 3
    /\ eres.value.first_page = 0 /\ eres.value.last_page = 4 /\ ~eres.value.no_last
    /\ eres.value.doc[1].lines # <<>> /\ eres.value.doc[2].lines = <<>>
    /\ eres.value.doc[3].lines # <<>>
    /\ eres.value.doc[1].lines[1].text = "a" /\ eres.value.doc[3].lines[1].text = "b"
    /\ Len(eres.value.result) = 3 /\ eres.value.result[2] = <<>>
    /\ eres.value.result[3][1].text = "b"

\* ----------------------------------------------------------------------
\* C25: polygon simplification returns, for every line with a non-empty
\* polygon (axis-aligned or rotated), the bounding box x = min x,
\* y = min y, width = max x - min x, height = max y - min y: width >= 0,
\* height >= 0, every vertex lies inside the rectangle, x and y are
\* coordinates of vertices, the right and bottom edges pass through
\* vertices, and text and confidence are unchanged.
C25_BoundingBox ==
    (/\ eres.op = "_simplify_ocr_lines"
     /\ \A k \in 1..Len(eres.value.page_lines) : eres.value.page_lines[k].bbox # <<>>) =>
        LET page_lines == eres.value.page_lines
            result == eres.value.result
        IN /\ eres.ok
           /\ Len(result) = Len(page_lines)
           /\ \A k \in 1..Len(page_lines) :
                  LET bbox == page_lines[k].bbox
                      box == result[k]
                  IN /\ box.text = page_lines[k].text
                     /\ box.confidence = page_lines[k].confidence
                     /\ box.width >= 0 /\ box.height >= 0
                     /\ \A v \in 1..Len(bbox) :
                            /\ box.x <= bbox[v][1] /\ bbox[v][1] <= box.x + box.width
                            /\ box.y <= bbox[v][2] /\ bbox[v][2] <= box.y + box.height
                     /\ \E v \in 1..Len(bbox) : bbox[v][1] = box.x
                     /\ \E v \in 1..Len(bbox) : bbox[v][2] = box.y
                     /\ \E v \in 1..Len(bbox) : bbox[v][1] = box.x + box.width
                     /\ \E v \in 1..Len(bbox) : bbox[v][2] = box.y + box.height

\* a rotated polygon (no vertex is a corner of its bounding box) is
\* simplified next to an axis-aligned one
C25_Witness ==
    /\ eres.op = "_simplify_ocr_lines" /\ eres.ok
    /\ Len(eres.value.result) = 2
    /\ \A v \in 1..Len(eres.value.page_lines[1].bbox) :
           eres.value.page_lines[1].bbox[v] # <<eres.value.result[1].x, eres.value.result[1].y>>
    /\ eres.value.result[1].width > 0 /\ eres.value.result[2].height > 0


\* ----------------------------------------------------------------------
\* the values the claim lets save_session_state store
SessionStateInClaim(s) ==
    /\ s.last_page >= 1
    /\ s.last_zoom > 0
    /\ s.ocr_mode \in {"page", "document"}

\* C26 as stated: after save_session_state(path, s) with last_page >= 1,
\* last_zoom > 0 and ocr_mode in {page, document}, every later successful
\* open_pdf(path), by the same or a new API instance on the same
\* database, returns session_state equal to s (s being the state of the
\* last save for the path).
C26_EveryLaterOpenReturnsSaved ==
    (eres.op = "open_pdf" /\ eres.ok) =>
        LET last == saved.session[eres.value.file_path] IN
        (IF last = <<>> THEN FALSE ELSE SessionStateInClaim(last[1].state)) =>
            eres.value.session_state = last[1].state

\* C26 amended: after save_session_state(path, s) with last_page >= 1,
\* last_zoom > 0 and ocr_mode in {page, document}, every later successful
\* open_pdf(path) returns session_state equal to s, unless
\* get_recent_files has deleted the row of the document since the save
\* because its file did not exist; record_document_opened changes only
\* file_name and last_opened_at of an existing row.
C26_ReopenKeepsSessionState ==
    (eres.op = "open_pdf" /\ eres.ok) =>
        LET last == saved.session[eres.value.file_path] IN
        (IF last = <<>> THEN FALSE
         ELSE SessionStateInClaim(last[1].state) /\ ~last[1].pruned) =>
            /\ eres.value.session_state = last[1].state
            /\ GetSessionState(store.documents, eres.value.file_path) = last[1].state

\* a document is opened again after its state (page 7, zoom 1.75, OCR of
\* the whole document) was saved, and the state saved is returned
C26_Witness ==
    /\ eres.op = "open_pdf" /\ eres.ok
    /\ saved.session[eres.value.file_path] # <<>>
    /\ eres.value.session_state =
           [last_page |-> 7, last_zoom |-> 1750, ocr_enabled |-> TRUE, ocr_mode |-> "document"]
    /\ store.documents[eres.value.file_path].last_opened_at = clock
    /\ clock >= 2

\* ----------------------------------------------------------------------
\* C27: for every supported provider (openai, anthropic, ollama),
\* save_ai_settings followed by get_ai_settings, also from a new instance
\* on the same database, returns the same provider, model and api_key,
\* and the base_url with its trailing slash removed (settings given
\* without surrounding blanks and with a model).
C27_AiSettingsRoundTrip ==
    (eres.op = "get_ai_settings" /\ saved.ai # <<>>) =>
        LET settings == saved.ai[1] IN
        (/\ settings.provider \in VALID_PROVIDERS
         /\ settings.model # <<>> /\ Strip(settings.model) = settings.model
         /\ Strip(settings.api_key) = settings.api_key
         /\ Strip(settings.base_url) = settings.base_url) =>
            /\ eres.ok
            /\ eres.value.provider = settings.provider
            /\ eres.value.model = settings.model
            /\ eres.value.api_key = settings.api_key
            /\ eres.value.base_url = RStrip(settings.base_url, "/")


\* ----------------------------------------------------------------- C31
\* C31: a worker never invokes the pipeline for a page that is in the
\* cache when it reaches that page, and after a job of the open document
\* has ended in error a later start_ocr_document on the unchanged
\* document starts a new worker as long as a page of 1..page_count is
\* still uncached (which then processes only those pages).
C31_ResumeAfterError ==
    [][/\ \A w \in Workers :
            (worker[w].pc = "loop" /\ worker'[w].pc = "run")
                => ~CacheHas(worker[w].page_num)
       /\ (/\ caller.pc = "start_cached"
           /\ caller' # caller
           /\ ocr_progress.status = "error"
           /\ ocr_progress.job_id = ocr_job_id
           /\ ~AllCached(caller.page_count))
            => caller'.pc = "start_running_update"]_vars

\* ----------------------------------------------------------------- C32
\* the threads of the live generation that have found no pipeline and are
\* constructing one (_ensure_ocr_pipeline lines 318-320)
ConstructingThreads ==
    {w \in Workers : worker[w].pc \in {"make", "assign"} /\ ~Stale(w)}
        \cup (IF caller.pc \in {"page_make", "page_assign"} THEN {FrontEnd} ELSE {})

\* C32: the pipeline is constructed lazily and once: within one
\* generation at most one thread constructs a pipeline (and its temp
\* directory), and a constructed pipeline is stored only where none was.
C32_PipelineCreatedOnce ==
    [][/\ Cardinality(ConstructingThreads) <= 1
       /\ (/\ ocr_pipeline' # ocr_pipeline
           /\ \/ caller.pc = "page_assign"
              \/ \E w \in Workers : worker[w].pc = "assign" /\ ~Stale(w) /\ Moves(w))
            => ocr_pipeline = NoDoc]_vars

\* ----------------------------------------------------------------- C35
\* C35: no stuck job: whenever progress.status is running (and
\* _cleanup_ocr is not between its lines 296 and 302, about to reset the
\* record), progress.job_id is the live generation id and a worker bound
\* to that generation is alive, or is about to be started by the start
\* call that wrote the status.
C35_RunningHasLiveWorker ==
    (ocr_progress.status = "running" /\ caller.pc # "open_reset") =>
        /\ ocr_progress.job_id = ocr_job_id
        /\ \/ \E w \in Workers : Alive(w) /\ worker[w].job_id = ocr_job_id
           \/ caller.pc = "start_spawn"

\* ----------------------------------------------------------------- C38
\* C38: whenever an update sets the status to completed (the worker's, or
\* the cached shortcut of start_ocr_document), progress.total_lines
\* equals the sum of the line counts of the cached pages 1..total_pages.
C38_CompletedTotalLines ==
    [][(ocr_progress'.status = "completed" /\ ocr_progress' # ocr_progress)
          => ocr_progress'.total_lines =
                 SumLines(ocr_cache',
                          (1..ocr_progress'.total_pages) \cap DOMAIN ocr_cache')]_vars


\* ----------------------------------------------------------------- C39
\* the notes a successful call of the last step was given, as stored
GivenNotes(notes) ==
    {SafeNotes(notes)[k] : k \in 1..Len(SafeNotes(notes))}

\* C39: page-note operations are scoped to their document:
\* save_page_notes(A, notes) makes the notes listed for A the given notes
\* with non-empty ids, delete_page_note(A, id) removes only that note of
\* A, and neither operation changes the notes listed for a different
\* document B, whatever note ids are used.
C39_NotesScopedToDocument ==
    [][/\ (eres'.op = "save_page_notes" /\ eres'.ok) =>
            LET listed == ListPageNotes(store'.page_notes, eres'.value.file_path)
                given == GivenNotes(eres'.value.notes)
            IN /\ listed \subseteq given
               /\ {n.id : n \in listed} = {n.id : n \in given}
               /\ \A d \in AbsPaths \ {eres'.value.file_path} :
                      ListPageNotes(store'.page_notes, d) = ListPageNotes(store.page_notes, d)
       /\ (eres'.op = "delete_page_note" /\ eres'.ok) =>
            /\ ListPageNotes(store'.page_notes, eres'.value.file_path) =
                   {n \in ListPageNotes(store.page_notes, eres'.value.file_path) :
                        n.id # Strip(eres'.value.note_id)}
            /\ \A d \in AbsPaths \ {eres'.value.file_path} :
                   ListPageNotes(store'.page_notes, d) = ListPageNotes(store.page_notes, d)]_vars


\* ----------------------------------------------------------------- C37
\* C37: a failed open_pdf leaves the session unchanged: when constructing
\* the new engine fails, the call reports success false, the previously
\* open document's engine has not been closed, pdf_engine and
\* current_pdf_path are as before the call, and the generation id is the
\* one the call found (so _cleanup_ocr, which empties the cache and
\* resets the progress record, has not run).
C37_FailedOpenLeavesSession ==
    (ret.op = "open_pdf" /\ ~ret.success) =>
        /\ ~ret.reopen
        /\ pdf_engine = ret.engine0
        /\ current_pdf_path = ret.engine0
        /\ ocr_job_id = ret.gen0


\* ----------------------------------------------------------------- C36
\* C36: the synchronous ocr_document() call eventually returns in every
\* execution in which each pipeline run terminates, including when
\* another document is opened while it is polling.
C36_OcrDocumentReturns ==
    (sync.pc # "none") ~> (sync.pc = "none")


\* ----------------------------------------------------------------- C34
\* C34: no recovery or clean-up path ever deletes a directory that is not
\* inside (or is not itself) an allowed model cache root, whatever path
\* the error message names, and _recover_broken_model_cache returns True
\* only if it deleted something.
C34_DeletesOnlyInsideRoots ==
    [][/\ \A d \in heal.dirs \ heal'.dirs :
              \E k \in 1..Len(GetModelCacheRoots) : IsPrefix(GetModelCacheRoots[k], d)
       /\ (heal'.result.op = "recover_broken_model_cache" /\ heal'.result.ok)
              => heal'.dirs # heal.dirs]_vars


\* ----------------------------------------------------------------- C33
NoDuplicates(seq) == \A i, j \in 1..Len(seq) : i # j => seq[i] # seq[j]

\* C33: model self-heal is bounded: a _create_ocr_model_with_recovery
\* call always ends with a model or an error, retries the build at most
\* once per failure category (model-name mismatch, dependency probe,
\* broken cache) and never builds more than three times; when the
\* dependency probe can be patched and the second build succeeds, exactly
\* two builds have happened and the model is returned.
C33_SelfHealBounded ==
    /\ [](heal.builds <= 3 /\ NoDuplicates(heal.retried))
    /\ [][(heal.pc = "build_patched" /\ heal.builds = 1 /\ heal'.pc = "idle"
             /\ heal'.result.ok)
            => heal'.result = HealResult("create_ocr_model", TRUE, 2)]_vars
    /\ (heal.pc \in BuildPcs)
           ~> (heal.pc = "idle" /\ heal.result.op = "create_ocr_model")

\* the first build failed on the dependency probe, the probe was patched
\* and the second build returned the model
C33_Witness ==
    /\ heal.pc = "idle"
    /\ heal.result = HealResult("create_ocr_model", TRUE, 2)
    /\ heal.retried = <<"dependency_probe">>

====
